---- MODULE Spec2Model ----
(***************************************************************************)
(* Vectro+: the streaming compressor (vectro_cli::compress_stream), the    *)
(* dataset codec (vectro_lib::EmbeddingDataset::load) and the two search    *)
(* indexes (vectro_lib::search::{SearchIndex, QuantizedIndex}).             *)
(*                                                                         *)
(* Numbers.  An f32 is a record [k, v]: k = "fin" with an integer v, "nan", *)
(* or "inf" with v = 1 / -1.  Finite arithmetic is exact (no rounding); a   *)
(* score is kept as num / sqrt(den), which is exact for every cosine of     *)
(* integer vectors.  Bytes are the integers 0..255, a file is a sequence of *)
(* bytes, an id is the sequence of its UTF-8 bytes.                         *)
(***************************************************************************)
EXTENDS Integers, Sequences, FiniteSets, TLC

(***************************************************************************)
(* Bounds of the model.                                                    *)
(***************************************************************************)
\* lines of the input file
MaxLines == 3
\* num_cpus::get().max(1): the number of worker threads
NumWorkers == 2
\* capacity of each bounded channel (bounded(1024) in the code, scaled down)
ChanCap == 1
\* embeddings of a dataset an index is built from
MaxRows == 3
\* largest k of a top_k query
MaxK == 3

\* the longest list of queries given to batch_top_k
MaxBatch == 2

\* the most calls of precompute_normalized on one index
MaxPrecomputes == 2

\* request handlers of the server that run concurrently
NumHandlers == 3

(***************************************************************************)
(* f32 values                                                              *)
(***************************************************************************)
F(n) == [k |-> "fin", v |-> n]

NaN == [k |-> "nan", v |-> 0]

PInf == [k |-> "inf", v |-> 1]

NInf == [k |-> "inf", v |-> -1]

\* a field of a text line that is no number
Txt == [k |-> "txt", v |-> 0]

IsFin(x) == x.k = "fin"

\* x < y on f32: false whenever one side is NaN
FLt(x, y) ==
  IF x.k = "nan" \/ y.k = "nan" THEN FALSE
  ELSE IF x.k = "inf" THEN x.v = -1 /\ ~(y.k = "inf" /\ y.v = -1)
  ELSE IF y.k = "inf" THEN y.v = 1
  ELSE x.v < y.v

\* x <= y on f32: false whenever one side is NaN
FLe(x, y) ==
  IF x.k = "nan" \/ y.k = "nan" THEN FALSE ELSE FLt(x, y) \/ x = y

Abs(n) == IF n < 0 THEN -n ELSE n

Min2(a, b) == IF a < b THEN a ELSE b

RECURSIVE SumSeq(_)
SumSeq(s) == IF s = <<>> THEN 0 ELSE Head(s) + SumSeq(Tail(s))

RECURSIVE Concat(_)
\* the concatenation of a sequence of sequences
Concat(ss) == IF ss = <<>> THEN <<>> ELSE Head(ss) \o Concat(Tail(ss))

Take(s, n) == SubSeq(s, 1, Min2(n, Len(s)))

Drop(s, n) == SubSeq(s, Min2(n, Len(s)) + 1, Len(s))

\* the multiset of the elements of a sequence, as a function elem -> count
BagOf(s) == [x \in {s[i] : i \in 1..Len(s)} |-> Cardinality({i \in 1..Len(s) : s[i] = x})]

(***************************************************************************)
(* vectro_lib: Embedding                                                   *)
(***************************************************************************)
Embedding(id, vector) == [id |-> id, vector |-> vector]

(***************************************************************************)
(* Similarity kernels.  A vector all of whose components are finite has an *)
(* exact squared norm; a vector with a NaN or infinite component has norm   *)
(* NaN or +inf, and every quotient and product formed with it is NaN or 0.  *)
(***************************************************************************)
AllFin(a) == \A i \in 1..Len(a) : IsFin(a[i])

\* dot(a, b) of two finite vectors: zip stops at the shorter one
dot(a, b) == SumSeq([i \in 1..Min2(Len(a), Len(b)) |-> a[i].v * b[i].v])

\* norm(a)^2 of a finite vector
norm2(a) == SumSeq([i \in 1..Len(a) |-> a[i].v * a[i].v])

(***************************************************************************)
(* Scores: num / sqrt(den), den >= 1, or NaN.                              *)
(***************************************************************************)
Score(num, den) == [k |-> "fin", num |-> num, den |-> den]

ScoreNaN == [k |-> "nan", num |-> 0, den |-> 1]

ScoreInt(n) == Score(n, 1)

Sign(n) == IF n > 0 THEN 1 ELSE IF n < 0 THEN -1 ELSE 0

RECURSIVE FracLt(_, _, _, _)
\* a/b < c/d for a, c >= 0 and b, d > 0, without forming a product
FracLt(a, b, c, d) ==
  LET qa == a \div b
      qc == c \div d
      ra == a % b
      rc == c % d
  IN IF qa # qc THEN qa < qc
     ELSE IF rc = 0 THEN FALSE
     ELSE IF ra = 0 THEN TRUE
     ELSE FracLt(d, rc, b, ra)

\* x < y for two scores that are not NaN
RealLt(x, y) ==
  LET sx == Sign(x.num)
      sy == Sign(y.num)
  IN IF sx # sy THEN sx < sy
     ELSE IF sx = 0 THEN FALSE
     ELSE IF sx > 0 THEN FracLt(x.num * x.num, x.den, y.num * y.num, y.den)
     ELSE FracLt(y.num * y.num, y.den, x.num * x.num, x.den)

\* x < y on f32 scores: false whenever one side is NaN
ScoreLt(x, y) == x.k = "fin" /\ y.k = "fin" /\ RealLt(x, y)

\* x == y on f32 scores: false whenever one side is NaN
ScoreEq(x, y) == x.k = "fin" /\ y.k = "fin" /\ ~RealLt(x, y) /\ ~RealLt(y, x)

\* the same f32 value (NaN the same as NaN): what a test comparing outputs sees
ScoreSame(x, y) == IF x.k = "nan" \/ y.k = "nan" THEN x.k = y.k ELSE ScoreEq(x, y)

(***************************************************************************)
(* vectro_lib::search::quant                                               *)
(***************************************************************************)
\* the number of quantization steps: bytes 0..=255
QLevels == 255

QuantTable(min, max) == [min |-> min, max |-> max]

\* quantize scaling by 127, as for a signed byte
quantize_HalfScale(t, v) ==
  IF FLe(t.max, t.min) THEN 0
  ELSE IF ~IsFin(t.min) \/ ~IsFin(t.max) THEN 0
  ELSE IF v.k = "nan" THEN 0
  ELSE IF v.k = "inf" THEN (IF v.v = 1 THEN 127 ELSE 0)
  ELSE LET x == v.v - t.min.v
           d == t.max.v - t.min.v
       IN IF x <= 0 THEN 0
          ELSE IF x >= d THEN 127
          ELSE (2 * 127 * x + d) \div (2 * d)

\* QuantTable::quantize: round(clamp((v - min) / (max - min), 0, 1) * 255) as u8;
\* f32::round rounds half away from zero and NaN as u8 is 0.  With a NaN or
\* infinite bound that is not degenerate the quotient is NaN (inf / inf) or 0
\* (finite / inf): the byte is 0
quantize(t, v) ==
  IF FLe(t.max, t.min) THEN 0
  ELSE IF ~IsFin(t.min) \/ ~IsFin(t.max) THEN 0
  ELSE IF v.k = "nan" THEN 0
  ELSE IF v.k = "inf" THEN (IF v.v = 1 THEN QLevels ELSE 0)
  ELSE LET x == v.v - t.min.v
           d == t.max.v - t.min.v
       IN IF x <= 0 THEN 0
          ELSE IF x >= d THEN QLevels
          ELSE (2 * QLevels * x + d) \div (2 * d)

\* QuantTable::dequantize, in units of 1/255: the f32 it returns is
\* dequantize(t, q) / 255 (an infinite min is returned as it is).  With a NaN
\* bound, or min = -inf, "min + t * (max - min)" is NaN; with a finite min and
\* max = +inf it is NaN for q = 0 (0 * inf) and +inf otherwise
dequantize(t, q) ==
  IF FLe(t.max, t.min)
    THEN (IF IsFin(t.min) THEN F(QLevels * t.min.v) ELSE t.min)
  ELSE IF t.min.k = "nan" \/ t.max.k = "nan" \/ t.min.k = "inf" THEN NaN
  ELSE IF t.max.k = "inf" THEN (IF q = 0 THEN NaN ELSE PInf)
  ELSE F(QLevels * t.min.v + q * (t.max.v - t.min.v))

RECURSIVE FoldMin_NoUpdate(_, _, _)
\* FoldMin that stops lowering the minimum after the first vector
FoldMin_NoUpdate(vectors, i, acc) ==
  IF vectors = <<>> THEN acc
  ELSE LET v == Head(vectors)
           a == IF i <= Len(v) /\ acc = PInf /\ FLt(v[i], acc) THEN v[i] ELSE acc
       IN FoldMin_NoUpdate(Tail(vectors), i, a)

RECURSIVE FoldMin(_, _, _)
\* the loop "if *x < mins[i] { mins[i] = *x }" over the vectors, for slot i
FoldMin(vectors, i, acc) ==
  IF vectors = <<>> THEN acc
  ELSE LET v == Head(vectors)
           a == IF i <= Len(v) /\ FLt(v[i], acc) THEN v[i] ELSE acc
       IN FoldMin(Tail(vectors), i, a)

RECURSIVE FoldMax(_, _, _)
\* the loop "if *x > maxs[i] { maxs[i] = *x }" over the vectors, for slot i
FoldMax(vectors, i, acc) ==
  IF vectors = <<>> THEN acc
  ELSE LET v == Head(vectors)
           a == IF i <= Len(v) /\ FLt(acc, v[i]) THEN v[i] ELSE acc
       IN FoldMax(Tail(vectors), i, a)

\* QuantizePanics without "if vectors.is_empty() { return .. }": vectors[0]
\* is out of bounds for an empty list
QuantizePanics_NoEmptyCheck(vectors) ==
  vectors = <<>> \/ \E j \in 1..Len(vectors) : Len(vectors[j]) > Len(vectors[1])

\* quantize_dataset panics (index out of bounds on mins[i]) when a vector is
\* longer than the first one
QuantizePanics(vectors) ==
  vectors # <<>> /\ \E j \in 1..Len(vectors) : Len(vectors[j]) > Len(vectors[1])

\* quant::quantize_dataset, where it does not panic: (tables, qvecs)
quantize_dataset(vectors) ==
  IF vectors = <<>> THEN [tables |-> <<>>, qvecs |-> <<>>]
  ELSE LET dim == Len(vectors[1])
           tbls == [i \in 1..dim |->
                      QuantTable(FoldMin(vectors, i, PInf), FoldMax(vectors, i, NInf))]
       IN [tables |-> tbls,
           qvecs |-> [j \in 1..Len(vectors) |->
                        [i \in 1..Len(vectors[j]) |-> quantize(tbls[i], vectors[j][i])]]]

(***************************************************************************)
(* bincode (1.x, fixed-width little-endian integers, u64 lengths)          *)
(***************************************************************************)
RECURSIVE LEBytes(_, _)
\* the w low bytes of n, least significant first
LEBytes(n, w) == IF w = 0 THEN <<>> ELSE <<n % 256>> \o LEBytes(n \div 256, w - 1)

U64LE(n) == LEBytes(n, 8)

U32LE(n) == LEBytes(n, 4)

\* the IEEE-754 single-precision bit pattern, least significant byte first
F32LE(x) ==
  CASE x.k = "nan" -> <<0, 0, 192, 127>>
    [] x.k = "inf" /\ x.v = 1 -> <<0, 0, 128, 127>>
    [] x.k = "inf" /\ x.v = -1 -> <<0, 0, 128, 255>>
    [] x.k = "fin" /\ x.v = 0 -> <<0, 0, 0, 0>>
    [] x.k = "fin" /\ x.v = 1 -> <<0, 0, 128, 63>>
    [] x.k = "fin" /\ x.v = -1 -> <<0, 0, 128, 191>>
    [] x.k = "fin" /\ x.v = 2 -> <<0, 0, 0, 64>>
    [] x.k = "fin" /\ x.v = -2 -> <<0, 0, 0, 192>>

\* the f32 values the model encodes
F32Known == {NaN, PInf, NInf} \cup {F(n) : n \in -2..2}

\* the f32 of a bit pattern; a pattern of no modelled value reads as kind "raw"
F32FromLE(b) ==
  IF \E x \in F32Known : F32LE(x) = b
    THEN CHOOSE x \in F32Known : F32LE(x) = b
    ELSE [k |-> "raw", v |-> 0]

\* bincode::serialize(&Embedding { id, vector })
SerializeEmbedding(e) ==
  U64LE(Len(e.id)) \o e.id \o U64LE(Len(e.vector))
    \o Concat([i \in 1..Len(e.vector) |-> F32LE(e.vector[i])])

\* bincode::serialize(&(id, qv)) of a (String, Vec<u8>)
SerializeQRecord(id, qv) == U64LE(Len(id)) \o id \o U64LE(Len(qv)) \o qv

\* bincode::serialize(&tables) of a Vec<QuantTable { min: f32, max: f32 }>
SerializeTables(tbls) ==
  U64LE(Len(tbls))
    \o Concat([i \in 1..Len(tbls) |-> F32LE(tbls[i].min) \o F32LE(tbls[i].max)])

\* bincode::serialize(&EmbeddingDataset { embeddings }), as save() writes it
SerializeDataset(embeddings) ==
  U64LE(Len(embeddings))
    \o Concat([i \in 1..Len(embeddings) |-> SerializeEmbedding(embeddings[i])])

RECURSIVE LEValue(_, _)
\* the little-endian value of bytes b, saturated at cap (a length that large
\* exceeds the buffer whatever it is exactly)
LEValue(b, cap) ==
  IF b = <<>> THEN 0
  ELSE Min2(Min2(LEValue(Tail(b), cap), cap) * 256 + Head(b), cap)

\* a decoder result: ok, the value read, and the position after it
DecOk(val, pos) == [ok |-> TRUE, val |-> val, pos |-> pos]

DecErr == [ok |-> FALSE, val |-> <<>>, pos |-> 0]

\* read a u64 at pos (1-based): UnexpectedEof when fewer than 8 bytes remain
ReadU64(buf, pos) ==
  IF pos + 7 > Len(buf) THEN DecErr
  ELSE DecOk(LEValue(SubSeq(buf, pos, pos + 7), Len(buf) + 1), pos + 8)

\* read a String: length, then that many bytes of UTF-8 (ASCII here)
ReadString(buf, pos) ==
  LET n == ReadU64(buf, pos)
  IN IF ~n.ok THEN DecErr
     ELSE IF n.pos + n.val - 1 > Len(buf) THEN DecErr
     ELSE LET s == SubSeq(buf, n.pos, n.pos + n.val - 1)
          IN IF \E i \in 1..Len(s) : s[i] > 127 THEN DecErr
             ELSE DecOk(s, n.pos + n.val)

RECURSIVE ReadF32s(_, _, _)
\* read n f32 values at pos
ReadF32s(buf, pos, n) ==
  IF n = 0 THEN DecOk(<<>>, pos)
  ELSE IF pos + 3 > Len(buf) THEN DecErr
  ELSE LET rest == ReadF32s(buf, pos + 4, n - 1)
       IN IF ~rest.ok THEN DecErr
          ELSE DecOk(<<F32FromLE(SubSeq(buf, pos, pos + 3))>> \o rest.val, rest.pos)

\* read an Embedding: id, then the vector
ReadEmbedding(buf, pos) ==
  LET id == ReadString(buf, pos)
  IN IF ~id.ok THEN DecErr
     ELSE LET n == ReadU64(buf, id.pos)
          IN IF ~n.ok THEN DecErr
             ELSE LET v == ReadF32s(buf, n.pos, n.val)
                  IN IF ~v.ok THEN DecErr
                     ELSE DecOk(Embedding(id.val, v.val), v.pos)

RECURSIVE ReadEmbeddings(_, _, _)
\* read n embeddings at pos
ReadEmbeddings(buf, pos, n) ==
  IF n = 0 THEN DecOk(<<>>, pos)
  ELSE LET e == ReadEmbedding(buf, pos)
       IN IF ~e.ok THEN DecErr
          ELSE LET rest == ReadEmbeddings(buf, e.pos, n - 1)
               IN IF ~rest.ok THEN DecErr
                  ELSE DecOk(<<e.val>> \o rest.val, rest.pos)

\* EmbeddingDataset::load on the bytes of the file: bincode::deserialize of the
\* whole buffer as an EmbeddingDataset (trailing bytes are allowed)
load(buf) ==
  LET n == ReadU64(buf, 1)
  IN IF ~n.ok THEN [ok |-> FALSE, embeddings |-> <<>>]
     ELSE LET es == ReadEmbeddings(buf, n.pos, n.val)
          IN [ok |-> es.ok, embeddings |-> es.val]

(***************************************************************************)
(* vectro_cli::compress_stream: the input text                             *)
(*                                                                         *)
(* A line is [kind, id, fields].  kind "blank": empty after trim.  kind      *)
(* "json": a JSON object with a string "id" and an array "vector" whose      *)
(* elements are fields (a number, or Txt for an element that is no number).  *)
(* kind "csv": any other text, a JSON value without a string "id" and an     *)
(* array "vector" included; id is the text before the first comma and        *)
(* fields are the comma-separated parts after it (none: no comma).           *)
(***************************************************************************)
Line(kind, id, fields) == [kind |-> kind, id |-> id, fields |-> fields]

\* the ids "a" and "b"
IdA == <<97>>

IdB == <<98>>

\* {"id":"a","vector":[1,0]}   {"id":"b","vector":[0,1]}   a,x,NaN
\* an empty line               a line of text without a comma
\* b,x                         {"id":"a","vector":[]}
LineAlphabet ==
  { Line("json", IdA, <<F(1), F(0)>>),
    Line("json", IdB, <<F(0), F(1)>>),
    Line("csv", IdA, <<Txt, NaN>>),
    Line("blank", <<>>, <<>>),
    Line("csv", IdB, <<>>),
    Line("csv", IdB, <<Txt>>),
    Line("json", IdA, <<>>) }

\* the numeric fields: "if let Some(flt) = x.as_f64()" / "if let Ok(f) = p.trim().parse::<f32>()"
NumericFields(fields) == SelectSeq(fields, LAMBDA x : x.k # "txt")

\* ParseLine taking a line without a comma for a CSV record
ParseLine_NoComma(line) ==
  CASE line.kind = "blank" -> [ok |-> FALSE, emb |-> Embedding(<<>>, <<>>)]
    [] line.kind = "json" ->
         [ok |-> TRUE, emb |-> Embedding(line.id, NumericFields(line.fields))]
    [] line.kind = "csv" ->
         [ok |-> TRUE, emb |-> Embedding(line.id, NumericFields(line.fields))]

\* the record the parser makes of a line, if any
ParseLine(line) ==
  CASE line.kind = "blank" -> [ok |-> FALSE, emb |-> Embedding(<<>>, <<>>)]
    [] line.kind = "json" ->
         [ok |-> TRUE, emb |-> Embedding(line.id, NumericFields(line.fields))]
    [] line.kind = "csv" ->
         IF Len(line.fields) + 1 >= 2
           THEN [ok |-> TRUE, emb |-> Embedding(line.id, NumericFields(line.fields))]
           ELSE [ok |-> FALSE, emb |-> Embedding(<<>>, <<>>)]

\* b"VECTRO+STREAM1\n"
header == <<86, 69, 67, 84, 82, 79, 43, 83, 84, 82, 69, 65, 77, 49, 10>>

\* b"VECTRO+QSTREAM1\n"
qheader == <<86, 69, 67, 84, 82, 79, 43, 81, 83, 84, 82, 69, 65, 77, 49, 10>>

\* what the quantized path writes before it starts the writer thread
QHeaderBytes(tbls) ==
  qheader \o U32LE(Len(tbls)) \o U32LE(IF tbls # <<>> THEN Len(tbls) ELSE 0)
    \o U32LE(Len(SerializeTables(tbls))) \o SerializeTables(tbls)

(***************************************************************************)
(* State                                                                   *)
(***************************************************************************)
VARIABLES
  input,                \* the lines of the input file not yet read
  quantize_arg,             \* the quantize argument
  pc,                   \* where the calling thread is in compress_stream
  parsed,               \* the parsed counter
  collected_embeddings, \* the embeddings collected when quantizing
  fed,                  \* how many collected embeddings were sent to the workers
  tables,               \* the quantization tables
  item_ch,              \* the item channel (item_tx/item_rx, or item_tx2/item_rx2)
  item_tx_open,         \* the item sender is not dropped
  bytes_ch,             \* the bytes channel
  bytes_tx_main,        \* the calling thread holds bytes_tx
  worker_pc,            \* each worker's position
  worker_buf,           \* the serialized record a worker is about to send
  writer_pc,            \* the writer's position
  writer_cur,           \* the buffer the writer received
  file,                 \* the bytes written to the output file
  result,               \* what compress_stream returned
  accepted,             \* history: the records the parser accepted, in input order
  read_lines,           \* history: the lines read from the input so far
  read_failed,          \* history: reading the input failed
  created,              \* history: the output file was created or truncated
  io_failed,            \* history: a write to the output failed
  dataset,              \* the embeddings an index is built from
  findex,               \* the SearchIndex
  qindex,               \* the QuantizedIndex
  last_call,            \* the last index call and what it returned
  batch,                \* the batch_top_k call in progress, or its result
  precomputes,          \* history: the calls of precompute_normalized so far
  quant_call,           \* the last call of a QuantTable method and what it returned
  state_embeddings,     \* AppState.embeddings: the embedding list of the server
  state_index,          \* AppState.index: the SearchIndex of the server, if any
  embeddings_lock,      \* the RwLock of AppState.embeddings: holders and waiters
  index_lock,           \* the RwLock of AppState.index: holders and waiters
  handler               \* the request handlers of the server: request, position, response

cvars == <<input, quantize_arg, pc, parsed, collected_embeddings, fed, tables, item_ch,
           item_tx_open, bytes_ch, bytes_tx_main, worker_pc, worker_buf, writer_pc,
           writer_cur, file, result, accepted, read_lines, read_failed, created,
           io_failed>>

ivars == <<dataset, findex, qindex, last_call, batch, precomputes, quant_call>>

svars == <<state_embeddings, state_index, embeddings_lock, index_lock, handler>>

vars == <<cvars, ivars, svars>>

Workers == 1..NumWorkers

RECURSIVE SeqsUpTo(_, _)
\* the sequences over S of length at most n
SeqsUpTo(S, n) ==
  IF n = 0 THEN {<<>>}
  ELSE LET shorter == SeqsUpTo(S, n - 1)
       IN shorter \cup {Append(s, x) : s \in {t \in shorter : Len(t) = n - 1}, x \in S}

NoResult == [kind |-> "none", n |-> 0]

InitCompress ==
  /\ input \in SeqsUpTo(LineAlphabet, MaxLines)
  /\ quantize_arg \in BOOLEAN
  /\ pc = "open"
  /\ parsed = 0
  /\ collected_embeddings = <<>>
  /\ fed = 0
  /\ tables = <<>>
  /\ item_ch = <<>>
  /\ item_tx_open = TRUE
  /\ bytes_ch = <<>>
  /\ bytes_tx_main = TRUE
  /\ worker_pc = [w \in Workers |-> "unspawned"]
  /\ worker_buf = [w \in Workers |-> <<>>]
  /\ writer_pc = "unspawned"
  /\ writer_cur = <<>>
  /\ file = <<>>
  /\ result = NoResult
  /\ accepted = <<>>
  /\ read_lines = <<>>
  /\ read_failed = FALSE
  /\ created = FALSE
  /\ io_failed = FALSE

WriterGone == writer_pc \in {"exited", "failed"}

\* a receiver of the bytes channel exists: without quantize the calling thread
\* keeps bytes_rx (the writer has a clone); with quantize bytes_rx is moved
\* into the writer
BytesRxAlive == ~quantize_arg \/ ~WriterGone

\* a sender of the bytes channel exists: bytes_tx or a worker's clone
BytesTxAlive == bytes_tx_main \/ \E w \in Workers : worker_pc[w] \in {"recv", "send"}

(***************************************************************************)
(* compress_stream: the calling thread                                     *)
(***************************************************************************)
Ok(n) == [kind |-> "ok", n |-> n]

Err == [kind |-> "err", n |-> 0]

Panic == [kind |-> "panic", n |-> 0]

\* File::open(input), File::create(output); without quantize the writer and
\* the workers are spawned here
MainOpen ==
  /\ pc = "open"
  /\ file' = <<>>
  /\ created' = TRUE
  /\ writer_pc' = IF quantize_arg THEN "unspawned" ELSE "header"
  /\ worker_pc' = IF quantize_arg THEN worker_pc ELSE [w \in Workers |-> "recv"]
  /\ pc' = "read"
  /\ UNCHANGED <<input, quantize_arg, parsed, collected_embeddings, fed, tables, item_ch,
                 item_tx_open, bytes_ch, bytes_tx_main, worker_buf, writer_cur, result,
                 accepted, read_lines, read_failed, io_failed, ivars, svars>>

\* MainOpenInputError with File::create(output) done before File::open(input)
MainOpenInputError_CreateFirst ==
  /\ pc = "open"
  /\ file' = <<>>
  /\ created' = TRUE
  /\ result' = Err
  /\ pc' = "done"
  /\ UNCHANGED <<input, quantize_arg, parsed, collected_embeddings, fed, tables, item_ch,
                 item_tx_open, bytes_ch, bytes_tx_main, worker_pc, worker_buf, writer_pc,
                 writer_cur, accepted, read_lines, read_failed, io_failed, ivars, svars>>

\* "File::open(input)?" fails: the error is returned before the output file
\* is created and before a thread is spawned
MainOpenInputError ==
  /\ pc = "open"
  /\ result' = Err
  /\ pc' = "done"
  /\ UNCHANGED <<input, quantize_arg, parsed, collected_embeddings, fed, tables, item_ch,
                 item_tx_open, bytes_ch, bytes_tx_main, worker_pc, worker_buf, writer_pc,
                 writer_cur, file, accepted, read_lines, read_failed, created, io_failed,
                 ivars, svars>>

\* reading a line fails: "reader.lines().map_while(Result::ok)" ends the loop
\* as at the end of the input, the lines after the failure are never read
MainReadError ==
  /\ pc = "read"
  /\ input # <<>>
  /\ input' = <<>>
  /\ read_failed' = TRUE
  /\ UNCHANGED <<quantize_arg, pc, parsed, collected_embeddings, fed, tables, item_ch,
                 item_tx_open, bytes_ch, bytes_tx_main, worker_pc, worker_buf, writer_pc,
                 writer_cur, file, result, accepted, read_lines, created, io_failed, ivars, svars>>

\* one iteration of "for line in reader.lines()": a line that gives a record
\* is collected (quantize) or sent into the item channel, which blocks while
\* the channel is full
MainReadLine ==
  /\ pc = "read"
  /\ input # <<>>
  /\ LET r == ParseLine(Head(input))
     IN /\ (r.ok /\ ~quantize_arg) => Len(item_ch) < ChanCap
        /\ input' = Tail(input)
        /\ parsed' = IF r.ok THEN parsed + 1 ELSE parsed
        /\ accepted' = IF r.ok THEN Append(accepted, r.emb) ELSE accepted
        /\ read_lines' = Append(read_lines, Head(input))
        /\ collected_embeddings' =
             IF r.ok /\ quantize_arg THEN Append(collected_embeddings, r.emb)
             ELSE collected_embeddings
        /\ item_ch' = IF r.ok /\ ~quantize_arg THEN Append(item_ch, r.emb) ELSE item_ch
  /\ UNCHANGED <<quantize_arg, pc, fed, tables, item_tx_open, bytes_ch, bytes_tx_main,
                 worker_pc, worker_buf, writer_pc, writer_cur, file, result, io_failed,
                 read_failed, created, ivars, svars>>

\* MainDropSenders without drop(item_tx): the workers' recv() never fails
MainDropSenders_KeepItemTx ==
  /\ pc = "read"
  /\ input = <<>>
  /\ ~quantize_arg
  /\ bytes_tx_main' = FALSE
  /\ pc' = "join_workers"
  /\ UNCHANGED <<input, quantize_arg, parsed, collected_embeddings, fed, tables, item_ch,
                 item_tx_open, bytes_ch, worker_pc, worker_buf, writer_pc, writer_cur, file,
                 result, accepted, read_lines, read_failed, created, io_failed, ivars, svars>>

\* end of input without quantize: drop(item_tx); drop(bytes_tx)
MainDropSenders ==
  /\ pc = "read"
  /\ input = <<>>
  /\ ~quantize_arg
  /\ item_tx_open' = FALSE
  /\ bytes_tx_main' = FALSE
  /\ pc' = "join_workers"
  /\ UNCHANGED <<input, quantize_arg, parsed, collected_embeddings, fed, tables, item_ch,
                 bytes_ch, worker_pc, worker_buf, writer_pc, writer_cur, file, result,
                 accepted, read_lines, read_failed, created, io_failed, ivars, svars>>

\* end of input with quantize: quantize_dataset over the collected vectors,
\* which panics on a vector longer than the first
MainTables ==
  /\ pc = "read"
  /\ input = <<>>
  /\ quantize_arg
  /\ LET vectors == [i \in 1..Len(collected_embeddings) |-> collected_embeddings[i].vector]
     IN IF QuantizePanics(vectors)
          THEN /\ pc' = "panicked"
               /\ result' = Panic
               /\ tables' = tables
          ELSE /\ pc' = "qheader"
               /\ result' = result
               /\ tables' = quantize_dataset(vectors).tables
  /\ UNCHANGED <<input, quantize_arg, parsed, collected_embeddings, fed, item_ch,
                 item_tx_open, bytes_ch, bytes_tx_main, worker_pc, worker_buf, writer_pc,
                 writer_cur, file, accepted, read_lines, read_failed, created, io_failed, ivars, svars>>

\* MainQHeader leaving the header unwritten
MainQHeader_NoWrite ==
  /\ pc = "qheader"
  /\ pc' = "spawn"
  /\ UNCHANGED <<input, quantize_arg, parsed, collected_embeddings, fed, tables, item_ch,
                 item_tx_open, bytes_ch, bytes_tx_main, worker_pc, worker_buf, writer_pc,
                 writer_cur, file, result, accepted, read_lines, read_failed, created,
                 io_failed, ivars, svars>>

\* File::create(output) again, then the magic, table_count, dim, tables_len
\* and the tables blob are written and flushed
MainQHeader ==
  /\ pc = "qheader"
  /\ file' = QHeaderBytes(tables)
  /\ pc' = "spawn"
  /\ UNCHANGED <<input, quantize_arg, parsed, collected_embeddings, fed, tables, item_ch,
                 item_tx_open, bytes_ch, bytes_tx_main, worker_pc, worker_buf, writer_pc,
                 writer_cur, result, accepted, read_lines, read_failed, created, io_failed,
                 ivars, svars>>

\* File::create, write_all or flush fails: "?" returns the error
MainQHeaderIoError ==
  /\ pc = "qheader"
  /\ file' = <<>>
  /\ io_failed' = TRUE
  /\ result' = Err
  /\ pc' = "done"
  /\ UNCHANGED <<input, quantize_arg, parsed, collected_embeddings, fed, tables, item_ch,
                 item_tx_open, bytes_ch, bytes_tx_main, worker_pc, worker_buf, writer_pc,
                 writer_cur, accepted, read_lines, read_failed, created, ivars, svars>>

\* the file is reopened for append, then the appending writer and the
\* quantizing workers are spawned
MainSpawn ==
  /\ pc = "spawn"
  /\ writer_pc' = "recv"
  /\ worker_pc' = [w \in Workers |-> "recv"]
  /\ pc' = "feed"
  /\ UNCHANGED <<input, quantize_arg, parsed, collected_embeddings, fed, tables, item_ch,
                 item_tx_open, bytes_ch, bytes_tx_main, worker_buf, writer_cur, file,
                 result, accepted, read_lines, read_failed, created, io_failed, ivars, svars>>

\* "OpenOptions::new().append(true).open(output)?" fails: the error is
\* returned, the header stays in the file
MainSpawnIoError ==
  /\ pc = "spawn"
  /\ io_failed' = TRUE
  /\ result' = Err
  /\ pc' = "done"
  /\ UNCHANGED <<input, quantize_arg, parsed, collected_embeddings, fed, tables, item_ch,
                 item_tx_open, bytes_ch, bytes_tx_main, worker_pc, worker_buf, writer_pc,
                 writer_cur, file, accepted, read_lines, read_failed, created, ivars, svars>>

\* one iteration of "for emb in collected_embeddings { item_tx2.send(emb) }"
MainFeed ==
  /\ pc = "feed"
  /\ fed < Len(collected_embeddings)
  /\ Len(item_ch) < ChanCap
  /\ item_ch' = Append(item_ch, collected_embeddings[fed + 1])
  /\ fed' = fed + 1
  /\ UNCHANGED <<input, quantize_arg, pc, parsed, collected_embeddings, tables,
                 item_tx_open, bytes_ch, bytes_tx_main, worker_pc, worker_buf, writer_pc,
                 writer_cur, file, result, accepted, read_lines, read_failed, created, io_failed, ivars, svars>>

\* drop(item_tx2); drop(bytes_tx)
MainFeedDone ==
  /\ pc = "feed"
  /\ fed = Len(collected_embeddings)
  /\ item_tx_open' = FALSE
  /\ bytes_tx_main' = FALSE
  /\ pc' = "join_workers"
  /\ UNCHANGED <<input, quantize_arg, parsed, collected_embeddings, fed, tables, item_ch,
                 bytes_ch, worker_pc, worker_buf, writer_pc, writer_cur, file, result,
                 accepted, read_lines, read_failed, created, io_failed, ivars, svars>>

\* for h in worker_handles { let _ = h.join(); }
MainJoinWorkers ==
  /\ pc = "join_workers"
  /\ \A w \in Workers : worker_pc[w] \in {"exited", "panicked"}
  /\ pc' = "join_writer"
  /\ UNCHANGED <<input, quantize_arg, parsed, collected_embeddings, fed, tables, item_ch,
                 item_tx_open, bytes_ch, bytes_tx_main, worker_pc, worker_buf, writer_pc,
                 writer_cur, file, result, accepted, read_lines, read_failed, created, io_failed, ivars, svars>>

\* if let Some(h) = writer_handle_opt { let _ = h.join(); } ... Ok(parsed)
MainJoinWriter ==
  /\ pc = "join_writer"
  /\ WriterGone
  /\ pc' = "done"
  /\ result' = Ok(parsed)
  /\ UNCHANGED <<input, quantize_arg, parsed, collected_embeddings, fed, tables, item_ch,
                 item_tx_open, bytes_ch, bytes_tx_main, worker_pc, worker_buf, writer_pc,
                 writer_cur, file, accepted, read_lines, read_failed, created, io_failed, ivars, svars>>

(***************************************************************************)
(* compress_stream: the worker threads                                     *)
(***************************************************************************)
\* WorkerBytes quantizing each vector with tables computed from that vector alone
WorkerBytes_OwnTables(e) ==
  IF quantize_arg
    THEN SerializeQRecord(e.id, [i \in 1..Len(e.vector) |->
                                   quantize(quantize_dataset(<<e.vector>>).tables[i], e.vector[i])])
    ELSE SerializeEmbedding(e)

\* what a worker serializes for an embedding
WorkerBytes(e) ==
  IF quantize_arg
    THEN SerializeQRecord(e.id, [i \in 1..Len(e.vector) |-> quantize(tables[i], e.vector[i])])
    ELSE SerializeEmbedding(e)

\* "while let Ok(e) = r.recv()" with an item: serialize it; tables[i] panics
\* on a vector longer than the tables
WorkerRecv(w) ==
  /\ worker_pc[w] = "recv"
  /\ item_ch # <<>>
  /\ item_ch' = Tail(item_ch)
  /\ LET e == Head(item_ch)
     IN IF quantize_arg /\ Len(e.vector) > Len(tables)
          THEN /\ worker_pc' = [worker_pc EXCEPT ![w] = "panicked"]
               /\ worker_buf' = worker_buf
          ELSE /\ worker_pc' = [worker_pc EXCEPT ![w] = "send"]
               /\ worker_buf' = [worker_buf EXCEPT ![w] = WorkerBytes(e)]
  /\ UNCHANGED <<input, quantize_arg, pc, parsed, collected_embeddings, fed, tables,
                 item_tx_open, bytes_ch, bytes_tx_main, writer_pc, writer_cur, file, result,
                 accepted, read_lines, read_failed, created, io_failed, ivars, svars>>

\* recv() fails: the channel is empty and its sender is dropped
WorkerExit(w) ==
  /\ worker_pc[w] = "recv"
  /\ item_ch = <<>>
  /\ ~item_tx_open
  /\ worker_pc' = [worker_pc EXCEPT ![w] = "exited"]
  /\ UNCHANGED <<input, quantize_arg, pc, parsed, collected_embeddings, fed, tables, item_ch,
                 item_tx_open, bytes_ch, bytes_tx_main, worker_buf, writer_pc, writer_cur,
                 file, result, accepted, read_lines, read_failed, created, io_failed, ivars, svars>>

\* WorkerSend on a channel that takes a buffer beyond its capacity
WorkerSend_Unbounded(w) ==
  /\ worker_pc[w] = "send"
  /\ bytes_ch' = IF BytesRxAlive THEN Append(bytes_ch, worker_buf[w]) ELSE bytes_ch
  /\ worker_buf' = [worker_buf EXCEPT ![w] = <<>>]
  /\ worker_pc' = [worker_pc EXCEPT ![w] = "recv"]
  /\ UNCHANGED <<input, quantize_arg, pc, parsed, collected_embeddings, fed, tables, item_ch,
                 item_tx_open, bytes_tx_main, writer_pc, writer_cur, file, result, accepted,
                 read_lines, read_failed, created, io_failed, ivars, svars>>

\* "let _ = tx.send(bytes)": an error (no receiver left) drops the buffer, a
\* full channel blocks
WorkerSend(w) ==
  /\ worker_pc[w] = "send"
  /\ BytesRxAlive => Len(bytes_ch) < ChanCap
  /\ bytes_ch' = IF BytesRxAlive THEN Append(bytes_ch, worker_buf[w]) ELSE bytes_ch
  /\ worker_buf' = [worker_buf EXCEPT ![w] = <<>>]
  /\ worker_pc' = [worker_pc EXCEPT ![w] = "recv"]
  /\ UNCHANGED <<input, quantize_arg, pc, parsed, collected_embeddings, fed, tables, item_ch,
                 item_tx_open, bytes_tx_main, writer_pc, writer_cur, file, result, accepted, read_lines, read_failed, created,
                 io_failed, ivars, svars>>

(***************************************************************************)
(* compress_stream: the writer thread                                      *)
(***************************************************************************)
\* w.write_all(&header_local)
WriterHeader ==
  /\ writer_pc = "header"
  /\ file' = file \o header
  /\ writer_pc' = "recv"
  /\ UNCHANGED <<input, quantize_arg, pc, parsed, collected_embeddings, fed, tables, item_ch,
                 item_tx_open, bytes_ch, bytes_tx_main, worker_pc, worker_buf, writer_cur,
                 result, accepted, read_lines, read_failed, created, io_failed, ivars, svars>>

\* WriterRecv taking the next buffer also between a length and its payload
WriterRecv_MidFrame ==
  /\ writer_pc \in {"recv", "payload"}
  /\ bytes_ch # <<>>
  /\ writer_cur' = Head(bytes_ch)
  /\ bytes_ch' = Tail(bytes_ch)
  /\ writer_pc' = "len"
  /\ UNCHANGED <<input, quantize_arg, pc, parsed, collected_embeddings, fed, tables, item_ch,
                 item_tx_open, bytes_tx_main, worker_pc, worker_buf, file, result, accepted, read_lines, read_failed, created,
                 io_failed, ivars, svars>>

\* "while let Ok(bytes) = rx.recv()" with a buffer
WriterRecv ==
  /\ writer_pc = "recv"
  /\ bytes_ch # <<>>
  /\ writer_cur' = Head(bytes_ch)
  /\ bytes_ch' = Tail(bytes_ch)
  /\ writer_pc' = "len"
  /\ UNCHANGED <<input, quantize_arg, pc, parsed, collected_embeddings, fed, tables, item_ch,
                 item_tx_open, bytes_tx_main, worker_pc, worker_buf, file, result, accepted, read_lines, read_failed, created,
                 io_failed, ivars, svars>>

\* recv() fails: the channel is empty and every sender is dropped
WriterEof ==
  /\ writer_pc = "recv"
  /\ bytes_ch = <<>>
  /\ ~BytesTxAlive
  /\ writer_pc' = "flush"
  /\ UNCHANGED <<input, quantize_arg, pc, parsed, collected_embeddings, fed, tables, item_ch,
                 item_tx_open, bytes_ch, bytes_tx_main, worker_pc, worker_buf, writer_cur,
                 file, result, accepted, read_lines, read_failed, created, io_failed, ivars, svars>>

\* w.write_all(&(bytes.len() as u32).to_le_bytes())
WriterLen ==
  /\ writer_pc = "len"
  /\ file' = file \o U32LE(Len(writer_cur))
  /\ writer_pc' = "payload"
  /\ UNCHANGED <<input, quantize_arg, pc, parsed, collected_embeddings, fed, tables, item_ch,
                 item_tx_open, bytes_ch, bytes_tx_main, worker_pc, worker_buf, writer_cur,
                 result, accepted, read_lines, read_failed, created, io_failed, ivars, svars>>

\* w.write_all(&bytes)
WriterPayload ==
  /\ writer_pc = "payload"
  /\ file' = file \o writer_cur
  /\ writer_cur' = <<>>
  /\ writer_pc' = "recv"
  /\ UNCHANGED <<input, quantize_arg, pc, parsed, collected_embeddings, fed, tables, item_ch,
                 item_tx_open, bytes_ch, bytes_tx_main, worker_pc, worker_buf, result,
                 accepted, read_lines, read_failed, created, io_failed, ivars, svars>>

\* w.flush(); Ok(())
WriterFlush ==
  /\ writer_pc = "flush"
  /\ writer_pc' = "exited"
  /\ UNCHANGED <<input, quantize_arg, pc, parsed, collected_embeddings, fed, tables, item_ch,
                 item_tx_open, bytes_ch, bytes_tx_main, worker_pc, worker_buf, writer_cur,
                 file, result, accepted, read_lines, read_failed, created, io_failed, ivars, svars>>

\* a write_all or the flush fails: "?" ends the thread with the error and
\* drops its receiver
WriterIoError ==
  /\ writer_pc \in {"header", "len", "payload", "flush"}
  /\ writer_pc' = "failed"
  /\ io_failed' = TRUE
  /\ UNCHANGED <<input, quantize_arg, pc, parsed, collected_embeddings, fed, tables, item_ch,
                 item_tx_open, bytes_ch, bytes_tx_main, worker_pc, worker_buf, writer_cur,
                 file, result, accepted, read_lines, read_failed, created, ivars, svars>>

MainStep ==
  \/ MainOpen
  \/ MainReadLine
  \/ MainDropSenders
  \/ MainTables
  \/ MainQHeader
  \/ MainSpawn
  \/ MainFeed
  \/ MainFeedDone
  \/ MainJoinWorkers
  \/ MainJoinWriter

WorkerStep(w) == WorkerRecv(w) \/ WorkerExit(w) \/ WorkerSend(w)

WriterStep ==
  \/ WriterHeader
  \/ WriterRecv
  \/ WriterEof
  \/ WriterLen
  \/ WriterPayload
  \/ WriterFlush

\* no SearchIndex has been built
NoSearchIndex == [built |-> FALSE, ids |-> <<>>, normalized |-> <<>>, dim |-> 0]

\* Option::None / Some(cache)
None == [some |-> FALSE, rows |-> <<>>]

Some(rows) == [some |-> TRUE, rows |-> rows]

\* no QuantizedIndex has been built
NoQuantizedIndex ==
  [built |-> FALSE, panicked |-> FALSE, ids |-> <<>>, tables |-> <<>>, qvecs |-> <<>>,
   dim |-> 0, normalized_cache |-> None]

NoCall == [op |-> "none", query |-> <<>>, k |-> 0, res |-> <<>>]

\* no QuantTable method has been called
NoQuantCall == [op |-> "none", t |-> QuantTable(F(0), F(0)), v |-> F(0), q |-> 0, r |-> F(0)]

\* no batch_top_k call is in progress
NoBatch ==
  [op |-> "none", state |-> "none", queries |-> <<>>, k |-> 0, done |-> <<>>, res |-> <<>>]

\* the request handlers that run concurrently
Handlers == 1..NumHandlers

\* Option<usize>
NoDimensions == [some |-> FALSE, val |-> 0]

SomeDimensions(n) == [some |-> TRUE, val |-> n]

NoRequest == [embeddings |-> <<>>, path |-> "absent", file |-> <<>>, query |-> <<>>, k |-> 0]

NoResponse ==
  [status |-> "none", code |-> 0, count |-> 0, dimensions |-> NoDimensions,
   index_loaded |-> FALSE, results |-> <<>>]

\* no request is being handled; wrote is history: the handler assigned to
\* the embedding list or to the index
NoHandler ==
  [kind |-> "none", pc |-> "idle", req |-> NoRequest, new_index |-> NoSearchIndex,
   wrote |-> FALSE, resp |-> NoResponse]

\* a lock nobody holds and nobody waits for
FreeLock == [holders |-> [h \in Handlers |-> "none"], queue |-> <<>>]

\* AppState::new(), no request received
InitServerIdle ==
  /\ state_embeddings = <<>>
  /\ state_index = NoSearchIndex
  /\ embeddings_lock = FreeLock
  /\ index_lock = FreeLock
  /\ handler = [h \in Handlers |-> NoHandler]

InitIndexIdle ==
  /\ dataset = <<>>
  /\ findex = NoSearchIndex
  /\ qindex = NoQuantizedIndex
  /\ last_call = NoCall
  /\ batch = NoBatch
  /\ precomputes = 0
  /\ quant_call = NoQuantCall

Init == InitCompress /\ InitIndexIdle /\ InitServerIdle

Next ==
  \/ MainStep
  \/ MainOpenInputError
  \/ MainReadError
  \/ MainQHeaderIoError
  \/ MainSpawnIoError
  \/ \E w \in Workers : WorkerStep(w)
  \/ WriterStep
  \/ WriterIoError

\* compress_stream under any interleaving of its threads
Spec == Init /\ [][Next]_vars

\* the threads are operating-system threads: one that can take a step
\* eventually takes it; a failing write is never forced
Fairness ==
  /\ WF_vars(MainStep)
  /\ \A w \in Workers : WF_vars(WorkerStep(w))
  /\ WF_vars(WriterStep)

\* compress_stream with every runnable thread eventually scheduled
SpecLive == Init /\ [][Next]_vars /\ Fairness

(***************************************************************************)
(* vectro_lib::search: normalized vectors and scores                       *)
(*                                                                         *)
(* A normalized vector v / norm(v) is [nan, v, n2]: the integer vector v     *)
(* divided by sqrt(n2), or (nan) a vector whose components are NaN because   *)
(* v had a NaN component.                                                    *)
(***************************************************************************)
Ints(a) == [i \in 1..Len(a) |-> a[i].v]

Zeros(n) == [i \in 1..n |-> 0]

\* "qnorm == 0.0" / "n == 0.0": false for a NaN or infinite norm
ZeroNorm(a) == AllFin(a) /\ norm2(a) = 0

\* Normalized without the division by the norm
Normalized_NoDivide(a) ==
  IF ~AllFin(a) THEN [nan |-> TRUE, v |-> Zeros(Len(a)), n2 |-> 1]
  ELSE [nan |-> FALSE, v |-> Ints(a), n2 |-> 1]

\* "if n == 0.0 { vec![0.0; len] } else { v / n }"
Normalized(a) ==
  IF ~AllFin(a) THEN [nan |-> TRUE, v |-> Zeros(Len(a)), n2 |-> 1]
  ELSE IF norm2(a) = 0 THEN [nan |-> FALSE, v |-> Zeros(Len(a)), n2 |-> 1]
  ELSE [nan |-> FALSE, v |-> Ints(a), n2 |-> norm2(a)]

\* "query.iter().map(|v| v / qnorm)" for a query whose norm is not 0
NormalizedQuery(query) ==
  IF ~AllFin(query) THEN [nan |-> TRUE, v |-> Zeros(Len(query)), n2 |-> 1]
  ELSE [nan |-> FALSE, v |-> Ints(query), n2 |-> norm2(query)]

\* dot(row, q) of two normalized vectors: NaN as soon as a NaN takes part
DotNormalized(row, q) ==
  LET n == Min2(Len(row.v), Len(q.v))
  IN IF n >= 1 /\ (row.nan \/ q.nan) THEN ScoreNaN
     ELSE Score(SumSeq([i \in 1..n |-> row.v[i] * q.v[i]]), row.n2 * q.n2)

\* IsLess with the comparison turned round: an ascending sort
IsLess_Ascending(a, b) == ScoreLt(a.score, b.score)

\* is_less of par_sort_by(|a, b| b.1.partial_cmp(&a.1).unwrap_or(Equal)):
\* a sorts before b when b's score is less than a's
IsLess(a, b) == ScoreLt(b.score, a.score)

RECURSIVE LeadingLess(_, _)
\* how many leading elements of tail sort before x
LeadingLess(tail, x) ==
  IF tail = <<>> \/ ~IsLess(Head(tail), x) THEN 0 ELSE 1 + LeadingLess(Tail(tail), x)

\* insert_head: x moves behind the leading elements that sort before it
InsertHead(x, tail) ==
  LET n == LeadingLess(tail, x)
  IN SubSeq(tail, 1, n) \o <<x>> \o SubSeq(tail, n + 1, Len(tail))

RECURSIVE SortDesc(_)
\* par_sort_by on a slice of at most 20 elements: insertion sort from the
\* back, "for i in (0..len - 1).rev() { insert_head(&mut v[i..]) }"
SortDesc(scores) ==
  IF Len(scores) <= 1 THEN scores ELSE InsertHead(Head(scores), SortDesc(Tail(scores)))

\* the (id, score) pairs of scored rows (row is the row's place in the index)
Pairs(scores) == [i \in 1..Len(scores) |-> [id |-> scores[i].id, score |-> scores[i].score]]

\* SortTake without take(k): every row is returned
SortTake_NoTake(scores, k) == Pairs(SortDesc(scores))

\* "scores.par_sort_by(..); scores.into_iter().take(k).collect()"
SortTake(scores, k) == Pairs(Take(SortDesc(scores), k))

(***************************************************************************)
(* SearchIndex                                                             *)
(***************************************************************************)
RECURSIVE FirstDim(_)
\* "if dim == 0 { dim = e.vector.len(); }" over the dataset
FirstDim(ds) ==
  IF ds = <<>> THEN 0
  ELSE IF Len(Head(ds).vector) # 0 THEN Len(Head(ds).vector)
  ELSE FirstDim(Tail(ds))

\* SearchIndex::from_dataset
SearchIndex_from_dataset(ds) ==
  [built |-> TRUE,
   ids |-> [i \in 1..Len(ds) |-> ds[i].id],
   normalized |-> [i \in 1..Len(ds) |-> Normalized(ds[i].vector)],
   dim |-> FirstDim(ds)]

\* the scores vector of SearchIndex::top_k before it is sorted
SearchIndex_scores(idx, query) ==
  [i \in 1..Len(idx.ids) |->
     [id |-> idx.ids[i],
      score |-> DotNormalized(idx.normalized[i], NormalizedQuery(query)),
      row |-> i]]

\* SearchIndex::top_k
SearchIndex_top_k(idx, query, k) ==
  IF Len(query) # idx.dim THEN <<>>
  ELSE IF ZeroNorm(query) THEN <<>>
  ELSE SortTake(SearchIndex_scores(idx, query), k)

(***************************************************************************)
(* QuantizedIndex                                                          *)
(***************************************************************************)
\* QuantizedIndex::from_dataset, where quantize_dataset does not panic
QuantizedIndex_from_dataset(ds) ==
  LET q == quantize_dataset([i \in 1..Len(ds) |-> ds[i].vector])
  IN [built |-> TRUE, panicked |-> FALSE,
      ids |-> [i \in 1..Len(ds) |-> ds[i].id],
      tables |-> q.tables, qvecs |-> q.qvecs, dim |-> Len(q.tables),
      normalized_cache |-> None]

\* QuantizedIndex::dequantize_vec (in units of 1/255)
dequantize_vec(idx, qv) == [i \in 1..Len(qv) |-> dequantize(idx.tables[i], qv[i])]

\* the score of one row without the cache:
\* "if n == 0.0 { -1.0 } else { dot(&v, &qnormed) / n }"
UncachedScore(idx, qv, query) ==
  LET v == dequantize_vec(idx, qv)
  IN IF ZeroNorm(v) THEN ScoreInt(-1)
     ELSE DotNormalized(Normalized(v), NormalizedQuery(query))

\* the scores vector of QuantizedIndex::top_k before it is sorted
QuantizedIndex_scores(idx, query) ==
  [i \in 1..Len(idx.ids) |->
     [id |-> idx.ids[i],
      score |-> IF idx.normalized_cache.some
                  THEN DotNormalized(idx.normalized_cache.rows[i], NormalizedQuery(query))
                  ELSE UncachedScore(idx, idx.qvecs[i], query),
      row |-> i]]

\* QuantizedIndex::top_k without "if qnorm == 0.0 { return vec![]; }"
QuantizedIndex_top_k_NoNormCheck(idx, query, k) ==
  IF Len(query) # idx.dim THEN <<>>
  ELSE SortTake(QuantizedIndex_scores(idx, query), k)

\* QuantizedIndex::top_k
QuantizedIndex_top_k(idx, query, k) ==
  IF Len(query) # idx.dim THEN <<>>
  ELSE IF ZeroNorm(query) THEN <<>>
  ELSE SortTake(QuantizedIndex_scores(idx, query), k)

\* precompute_normalized freeing the quantized bytes once the cache is built
QuantizedIndex_precompute_normalized_DropQvecs(idx) ==
  [idx EXCEPT !.normalized_cache =
                 Some([i \in 1..Len(idx.qvecs) |-> Normalized(dequantize_vec(idx, idx.qvecs[i]))]),
              !.qvecs = <<>>]

\* QuantizedIndex::precompute_normalized
QuantizedIndex_precompute_normalized(idx) ==
  [idx EXCEPT !.normalized_cache =
     Some([i \in 1..Len(idx.qvecs) |-> Normalized(dequantize_vec(idx, idx.qvecs[i]))])]

(***************************************************************************)
(* The indexes as a state machine: a dataset is filled, the indexes are     *)
(* built from it, then queried.                                            *)
(***************************************************************************)
\* a (1,0)  b (0,1)  c (1,1)  d (0,0)  e (NaN,1)  f (-1,0)  g (1)  h (2,0)
EmbeddingPool ==
  { Embedding(<<97>>, <<F(1), F(0)>>),
    Embedding(<<98>>, <<F(0), F(1)>>),
    Embedding(<<99>>, <<F(1), F(1)>>),
    Embedding(<<100>>, <<F(0), F(0)>>),
    Embedding(<<101>>, <<NaN, F(1)>>),
    Embedding(<<102>>, <<F(-1), F(0)>>),
    Embedding(<<103>>, <<F(1)>>),
    Embedding(<<104>>, <<F(2), F(0)>>) }

Queries ==
  { <<F(1), F(0)>>, <<F(0), F(1)>>, <<F(0), F(0)>>, <<F(1)>>, <<NaN, F(0)>>, <<>> }

\* the compressor is not running
InitCompressIdle ==
  /\ input = <<>>
  /\ quantize_arg = FALSE
  /\ pc = "idle"
  /\ parsed = 0
  /\ collected_embeddings = <<>>
  /\ fed = 0
  /\ tables = <<>>
  /\ item_ch = <<>>
  /\ item_tx_open = FALSE
  /\ bytes_ch = <<>>
  /\ bytes_tx_main = FALSE
  /\ worker_pc = [w \in Workers |-> "unspawned"]
  /\ worker_buf = [w \in Workers |-> <<>>]
  /\ writer_pc = "unspawned"
  /\ writer_cur = <<>>
  /\ file = <<>>
  /\ result = NoResult
  /\ accepted = <<>>
  /\ read_lines = <<>>
  /\ read_failed = FALSE
  /\ created = FALSE
  /\ io_failed = FALSE

InitIndex == InitCompressIdle /\ InitIndexIdle /\ InitServerIdle

\* EmbeddingDataset::add, before an index is built
DatasetAdd(e) ==
  /\ ~findex.built /\ ~qindex.built /\ ~qindex.panicked
  /\ Len(dataset) < MaxRows
  /\ dataset' = Append(dataset, e)
  /\ UNCHANGED <<findex, qindex, last_call, batch, precomputes, quant_call, cvars, svars>>

\* nothing borrowed from an index is alive
NoBorrow == last_call = NoCall /\ batch = NoBatch

BuildSearchIndex ==
  /\ ~findex.built
  /\ NoBorrow
  /\ findex' = SearchIndex_from_dataset(dataset)
  /\ UNCHANGED <<dataset, qindex, last_call, batch, precomputes, quant_call, cvars, svars>>

\* QuantizedIndex::from_dataset: quantize_dataset panics on a vector longer
\* than the first
BuildQuantizedIndex ==
  /\ ~qindex.built /\ ~qindex.panicked
  /\ NoBorrow
  /\ qindex' =
       IF QuantizePanics([i \in 1..Len(dataset) |-> dataset[i].vector])
         THEN [NoQuantizedIndex EXCEPT !.panicked = TRUE]
         ELSE QuantizedIndex_from_dataset(dataset)
  /\ UNCHANGED <<dataset, findex, last_call, batch, precomputes, quant_call, cvars, svars>>

\* PrecomputeNormalized dropping a cache that is there
PrecomputeNormalized_Toggle ==
  /\ qindex.built
  /\ NoBorrow
  /\ precomputes < MaxPrecomputes
  /\ qindex' = IF qindex.normalized_cache.some
                 THEN [qindex EXCEPT !.normalized_cache = None]
                 ELSE QuantizedIndex_precompute_normalized(qindex)
  /\ precomputes' = precomputes + 1
  /\ UNCHANGED <<dataset, findex, last_call, batch, quant_call, cvars, svars>>

\* precompute_normalized(&mut self): no result borrowed from the index is alive
PrecomputeNormalized ==
  /\ qindex.built
  /\ NoBorrow
  /\ precomputes < MaxPrecomputes
  /\ qindex' = QuantizedIndex_precompute_normalized(qindex)
  /\ precomputes' = precomputes + 1
  /\ UNCHANGED <<dataset, findex, last_call, batch, quant_call, cvars, svars>>

Call(op, query, k, res) == [op |-> op, query |-> query, k |-> k, res |-> res]

SearchTopK(query, k) ==
  /\ findex.built
  /\ NoBorrow
  /\ last_call' = Call("SearchIndex::top_k", query, k, SearchIndex_top_k(findex, query, k))
  /\ UNCHANGED <<dataset, findex, qindex, batch, precomputes, quant_call, cvars, svars>>

QuantizedTopK(query, k) ==
  /\ qindex.built
  /\ NoBorrow
  /\ last_call' =
       Call("QuantizedIndex::top_k", query, k, QuantizedIndex_top_k(qindex, query, k))
  /\ UNCHANGED <<dataset, findex, qindex, batch, precomputes, quant_call, cvars, svars>>

\* top_k(v.vector, 1) for the embedding v stored at row i of the dataset
SelfQuery(i) ==
  /\ i \in 1..Len(dataset)
  /\ SearchTopK(dataset[i].vector, 1)

\* the caller drops the result of the call
DropResult ==
  /\ last_call # NoCall
  /\ last_call' = NoCall
  /\ UNCHANGED <<dataset, findex, qindex, batch, precomputes, quant_call, cvars, svars>>

\* the queries batch_top_k is called with
BatchQueries == { <<F(1), F(0)>>, <<F(0), F(1)>>, <<F(0), F(0)>> }

\* "self.top_k(q, k)" of the index a batch runs on
BatchTopK(op, query, k) ==
  IF op = "SearchIndex::batch_top_k"
    THEN SearchIndex_top_k(findex, query, k)
    ELSE QuantizedIndex_top_k(qindex, query, k)

\* batch_top_k is called: "queries.par_iter()" hands the queries to the pool
BatchStart(op, queries, k) ==
  /\ IF op = "SearchIndex::batch_top_k" THEN findex.built ELSE qindex.built
  /\ NoBorrow
  /\ batch' = [op |-> op, state |-> "running", queries |-> queries, k |-> k,
               done |-> <<>>, res |-> [i \in 1..Len(queries) |-> <<>>]]
  /\ UNCHANGED <<dataset, findex, qindex, last_call, precomputes, quant_call, cvars, svars>>

\* BatchMap writing each result at the place it is finished in
BatchMap_CompletionOrder(i) ==
  /\ batch.state = "running"
  /\ i \in 1..Len(batch.queries)
  /\ \A j \in 1..Len(batch.done) : batch.done[j] # i
  /\ batch' = [batch EXCEPT !.done = Append(@, i),
                            !.res[Len(batch.done) + 1] =
                               BatchTopK(batch.op, batch.queries[i], batch.k)]
  /\ UNCHANGED <<dataset, findex, qindex, last_call, precomputes, quant_call, cvars, svars>>

\* ".map(|q| self.top_k(q, k))": a pool thread runs query i, whichever is left,
\* and the indexed collect places its result at position i
BatchMap(i) ==
  /\ batch.state = "running"
  /\ i \in 1..Len(batch.queries)
  /\ \A j \in 1..Len(batch.done) : batch.done[j] # i
  /\ batch' = [batch EXCEPT !.done = Append(@, i),
                            !.res[i] = BatchTopK(batch.op, batch.queries[i], batch.k)]
  /\ UNCHANGED <<dataset, findex, qindex, last_call, precomputes, quant_call, cvars, svars>>

\* ".collect()" returns when every query has run
BatchCollect ==
  /\ batch.state = "running"
  /\ Len(batch.done) = Len(batch.queries)
  /\ batch' = [batch EXCEPT !.state = "returned"]
  /\ UNCHANGED <<dataset, findex, qindex, last_call, precomputes, quant_call, cvars, svars>>

\* the caller drops the result of the batch
BatchDrop ==
  /\ batch.state = "returned"
  /\ batch' = NoBatch
  /\ UNCHANGED <<dataset, findex, qindex, last_call, precomputes, quant_call, cvars, svars>>

NextIndex ==
  \/ \E e \in EmbeddingPool : DatasetAdd(e)
  \/ BuildSearchIndex
  \/ BuildQuantizedIndex
  \/ PrecomputeNormalized
  \/ \E query \in Queries, k \in 0..MaxK : SearchTopK(query, k)
  \/ \E query \in Queries, k \in 0..MaxK : QuantizedTopK(query, k)
  \/ \E i \in 1..MaxRows : SelfQuery(i)
  \/ DropResult

\* the embeddings of the datasets batches run on: a (1,0)  b (0,1)  d (0,0)
BatchPool ==
  { Embedding(<<97>>, <<F(1), F(0)>>),
    Embedding(<<98>>, <<F(0), F(1)>>),
    Embedding(<<100>>, <<F(0), F(0)>>) }

\* a dataset has been filled and no index is built yet
InitBatch ==
  /\ InitCompressIdle
  /\ InitServerIdle
  /\ dataset \in SeqsUpTo(BatchPool, MaxRows)
  /\ findex = NoSearchIndex
  /\ qindex = NoQuantizedIndex
  /\ last_call = NoCall
  /\ batch = NoBatch
  /\ precomputes = 0
  /\ quant_call = NoQuantCall

\* the indexes under any sequence of builds and batches
NextBatch ==
  \/ BuildSearchIndex
  \/ BuildQuantizedIndex
  \/ PrecomputeNormalized
  \/ \E op \in {"SearchIndex::batch_top_k", "QuantizedIndex::batch_top_k"},
        queries \in SeqsUpTo(BatchQueries, MaxBatch), k \in 0..MaxK :
       BatchStart(op, queries, k)
  \/ \E i \in 1..MaxBatch : BatchMap(i)
  \/ BatchCollect
  \/ BatchDrop

SpecBatch == InitBatch /\ [][NextBatch]_vars

SpecIndex == InitIndex /\ [][NextIndex]_vars

(***************************************************************************)
(* What the claims speak of                                                *)
(***************************************************************************)
\* compress_stream is over: it returned or it unwound
Terminated == pc \in {"done", "panicked"}

\* no spawned thread is left running
AllThreadsExited ==
  /\ \A w \in Workers : worker_pc[w] \in {"unspawned", "exited", "panicked"}
  /\ writer_pc \in {"unspawned", "exited", "failed"}

RECURSIVE ParseFrames(_)
\* the record frames of a stream body: u32 length, then that many bytes
ParseFrames(bytes) ==
  IF bytes = <<>> THEN [ok |-> TRUE, frames |-> <<>>]
  ELSE IF Len(bytes) < 4 THEN [ok |-> FALSE, frames |-> <<>>]
  ELSE LET n == LEValue(SubSeq(bytes, 1, 4), Len(bytes) + 1)
       IN IF 4 + n > Len(bytes) THEN [ok |-> FALSE, frames |-> <<>>]
          ELSE LET rest == ParseFrames(Drop(bytes, 4 + n))
               IN [ok |-> rest.ok, frames |-> <<SubSeq(bytes, 5, 4 + n)>> \o rest.frames]

\* the length of the container header of the output file
HeaderLen == IF quantize_arg THEN Len(QHeaderBytes(tables)) ELSE Len(header)

\* the record frames of the output file
FileFrames == ParseFrames(Drop(file, HeaderLen))

\* the quantized byte vectors quantize_dataset computes for the accepted records
AcceptedQVecs == quantize_dataset([i \in 1..Len(accepted) |-> accepted[i].vector]).qvecs

\* the payload of the frame of the i-th accepted record
ExpectedPayload(i) ==
  IF quantize_arg THEN SerializeQRecord(accepted[i].id, AcceptedQVecs[i])
  ELSE SerializeEmbedding(accepted[i])

\* an f32 in units of 1/255
Times255(x) == IF IsFin(x) THEN F(QLevels * x.v) ELSE x

\* C1: after compress_stream(input, out, false) has returned without an I/O
\* failure, load(out) succeeds and holds the same multiset of (id, vector)
\* pairs as the accepted records
C1_RoundTrip ==
  (pc = "done" /\ ~quantize_arg /\ ~io_failed)
    => /\ load(file).ok
       /\ BagOf(load(file).embeddings) = BagOf(accepted)

\* C2: after compress_stream(input, out, true) has returned without an I/O
\* failure, load(out) succeeds, its ids are the multiset of the accepted ids
\* and each vector is the dequantization of the record's quantized bytes
C2_QuantizedRoundTrip ==
  (pc = "done" /\ quantize_arg /\ ~io_failed)
    => LET ds == load(file)
       IN /\ ds.ok
          /\ BagOf([i \in 1..Len(ds.embeddings) |->
                      Embedding(ds.embeddings[i].id,
                                [j \in 1..Len(ds.embeddings[i].vector) |->
                                   Times255(ds.embeddings[i].vector[j])])])
               = BagOf([i \in 1..Len(accepted) |->
                          Embedding(accepted[i].id,
                                    [j \in 1..Len(accepted[i].vector) |->
                                       dequantize(tables[j], AcceptedQVecs[i][j])])])

\* C3: when compress_stream is over and no write failed, the record frames of
\* the output are a permutation of the accepted records: each written once
C3_FramesArePermutation ==
  (Terminated /\ ~io_failed)
    => /\ FileFrames.ok
       /\ Len(FileFrames.frames) = Len(accepted)
       /\ BagOf(FileFrames.frames) = BagOf([i \in 1..Len(accepted) |-> ExpectedPayload(i)])

\* the same, for the runs in which compress_stream returns
FramesArePermutationOnReturn ==
  (pc = "done" /\ ~io_failed)
    => /\ FileFrames.ok
       /\ Len(FileFrames.frames) = Len(accepted)
       /\ BagOf(FileFrames.frames) = BagOf([i \in 1..Len(accepted) |-> ExpectedPayload(i)])

\* C5: when the writer thread failed on a write, compress_stream returns an
\* error
C5_WriterErrorSurfaces == (pc = "done" /\ writer_pc = "failed") => result.kind = "err"

\* C4: when no write fails compress_stream comes to its end with every thread
\* exited; a worker exits only once the item sender is dropped and the item
\* channel is drained, the writer leaves its loop only once every bytes
\* sender is dropped and the bytes channel is drained, and compress_stream
\* returns only with every thread exited
C4_Terminates ==
  /\ <>(io_failed \/ (Terminated /\ AllThreadsExited))
  /\ [][\A w \in Workers :
          (worker_pc[w] # "exited" /\ worker_pc'[w] = "exited")
            => (~item_tx_open /\ item_ch = <<>>)]_vars
  /\ [][(writer_pc # "flush" /\ writer_pc' = "flush")
          => (~BytesTxAlive /\ bytes_ch = <<>>)]_vars
  /\ [](pc = "done" => AllThreadsExited)

\* a run that returned Ok after three records went through workers and writer
C4_Witness ==
  /\ pc = "done"
  /\ ~io_failed
  /\ result = Ok(3)
  /\ writer_pc = "exited"
  /\ \A w \in Workers : worker_pc[w] = "exited"

(***************************************************************************)
(* QuantTable as a state machine: tables and values are drawn from the     *)
(* f32 values the model knows, a value is quantized and the byte is        *)
(* dequantized again; any byte is dequantized.                             *)
(***************************************************************************)
\* the tables QuantTable::new makes of the known values
QuantTables == {QuantTable(min, max) : min \in F32Known, max \in F32Known}

QuantCall(op, t, v, q, r) == [op |-> op, t |-> t, v |-> v, q |-> q, r |-> r]

InitQuant == InitCompressIdle /\ InitIndexIdle /\ InitServerIdle

\* t.quantize(v)
Quantize(t, v) ==
  /\ quant_call = NoQuantCall
  /\ quant_call' = QuantCall("quantize", t, v, quantize(t, v), F(0))
  /\ UNCHANGED <<dataset, findex, qindex, last_call, batch, precomputes, cvars, svars>>

\* t.dequantize(q) of the byte t.quantize(v) returned
Dequantize ==
  /\ quant_call.op = "quantize"
  /\ quant_call' = [quant_call EXCEPT !.op = "dequantize",
                                      !.r = dequantize(quant_call.t, quant_call.q)]
  /\ UNCHANGED <<dataset, findex, qindex, last_call, batch, precomputes, cvars, svars>>

\* t.dequantize(b) of any byte
DequantizeByte(t, b) ==
  /\ quant_call = NoQuantCall
  /\ quant_call' = QuantCall("dequantize_byte", t, F(0), b, dequantize(t, b))
  /\ UNCHANGED <<dataset, findex, qindex, last_call, batch, precomputes, cvars, svars>>

\* the caller is done with the value returned
QuantReturn ==
  /\ quant_call # NoQuantCall
  /\ quant_call' = NoQuantCall
  /\ UNCHANGED <<dataset, findex, qindex, last_call, batch, precomputes, cvars, svars>>

NextQuant ==
  \/ \E t \in QuantTables, v \in F32Known : Quantize(t, v)
  \/ Dequantize
  \/ \E t \in QuantTables, b \in 0..QLevels : DequantizeByte(t, b)
  \/ QuantReturn

SpecQuant == InitQuant /\ [][NextQuant]_vars

(***************************************************************************)
(* vectro_cli::server: the HTTP facade.  AppState holds the embedding list *)
(* and the index, each in its own tokio RwLock.  A lock is the record of   *)
(* its holders and of the FIFO queue of its waiters: a request joins the   *)
(* queue, the head of the queue is granted when it is compatible with the  *)
(* holders, so a reader that arrives behind a waiting writer waits.        *)
(***************************************************************************)
\* lock.read().await / lock.write().await: the handler joins the waiters
Enqueue(lock, h, mode) == [lock EXCEPT !.queue = Append(@, [h |-> h, mode |-> mode])]

\* a read guard may be shared with readers, a write guard with nobody
Compatible(lock, mode) ==
  IF mode = "read" THEN \A h \in Handlers : lock.holders[h] # "write"
  ELSE \A h \in Handlers : lock.holders[h] = "none"

\* the first waiter gets its guard
GrantHead(lock) ==
  [lock EXCEPT !.holders[Head(lock.queue).h] = Head(lock.queue).mode, !.queue = Tail(@)]

\* the guard of handler h is dropped
Release(lock, h) == [lock EXCEPT !.holders[h] = "none"]

Holds(lock, h, mode) == lock.holders[h] = mode

\* the await of state.embeddings.read() / write() completes
GrantEmbeddings ==
  /\ embeddings_lock.queue # <<>>
  /\ Compatible(embeddings_lock, Head(embeddings_lock.queue).mode)
  /\ embeddings_lock' = GrantHead(embeddings_lock)
  /\ UNCHANGED <<state_embeddings, state_index, index_lock, handler, cvars, ivars>>

\* the await of state.index.read() / write() completes
GrantIndex ==
  /\ index_lock.queue # <<>>
  /\ Compatible(index_lock, Head(index_lock.queue).mode)
  /\ index_lock' = GrantHead(index_lock)
  /\ UNCHANGED <<state_embeddings, state_index, embeddings_lock, handler, cvars, ivars>>

\* embeddings.first().map(|e| e.vector.len())
Dimensions(embeddings) ==
  IF embeddings = <<>> THEN NoDimensions ELSE SomeDimensions(Len(embeddings[1].vector))

StatsResponse(count, dimensions, index_loaded) ==
  [status |-> "ok", code |-> 200, count |-> count, dimensions |-> dimensions,
   index_loaded |-> index_loaded, results |-> <<>>]

SearchResponse(results) ==
  [status |-> "ok", code |-> 200, count |-> 0, dimensions |-> NoDimensions,
   index_loaded |-> FALSE, results |-> results]

ErrResponse(code) == [NoResponse EXCEPT !.status = "err", !.code = code]

\* the request bodies of POST /api/upload: no embedding; a (1,0), b (0,1);
\* c (1,1); a (1,0), g (1), of different dimensions
UploadPayloads ==
  { <<>>,
    <<Embedding(<<97>>, <<F(1), F(0)>>), Embedding(<<98>>, <<F(0), F(1)>>)>>,
    <<Embedding(<<99>>, <<F(1), F(1)>>)>>,
    <<Embedding(<<97>>, <<F(1), F(0)>>), Embedding(<<103>>, <<F(1)>>)>> }

\* the file of a dataset that holds b (0,1)
DatasetFile == SerializeDataset(<<Embedding(<<98>>, <<F(0), F(1)>>)>>)

\* the files a load request can name: a saved dataset, a cut file, a saved
\* dataset without embeddings
Files == { DatasetFile, Take(DatasetFile, Len(DatasetFile) - 1), SerializeDataset(<<>>) }

\* the queries of GET /api/load: without "path", with the path of no file,
\* with the path of a file
LoadRequests ==
  { [NoRequest EXCEPT !.path = "absent"], [NoRequest EXCEPT !.path = "nofile"] }
    \cup { [NoRequest EXCEPT !.path = "file", !.file = f] : f \in Files }

\* the request bodies of POST /api/search
SearchRequests ==
  { [NoRequest EXCEPT !.query = <<F(1), F(0)>>, !.k = 1],
    [NoRequest EXCEPT !.query = <<F(0), F(1)>>, !.k = 2] }

\* EmbeddingDataset::load of each file
LoadedFiles == [f \in Files |-> load(f)]

\* the lists a request can make the server store
StoredLists == UploadPayloads \cup { LoadedFiles[f].embeddings : f \in Files }

\* SearchIndex::from_dataset of each list, computed once
BuiltIndexes == [l \in StoredLists |-> SearchIndex_from_dataset(l)]

\* idx.top_k(&payload.query, payload.k) for each index and search request,
\* computed once
TopKResults ==
  [idx \in {BuiltIndexes[l] : l \in StoredLists}, r \in SearchRequests |->
     SearchIndex_top_k(idx, r.query, r.k)]

\* EmbeddingDataset::load(path) for the path of a request
LoadFile(req) ==
  IF req.path = "file" THEN LoadedFiles[req.file] ELSE [ok |-> FALSE, embeddings |-> <<>>]

\* the requests of a kind
Requests(kind) ==
  IF kind = "stats" THEN {NoRequest}
  ELSE IF kind = "upload" THEN {[NoRequest EXCEPT !.embeddings = p] : p \in UploadPayloads}
  ELSE IF kind = "search" THEN SearchRequests
  ELSE LoadRequests

\* a request arrives and the router calls its handler
HandlerStart(h, kind, req) ==
  /\ handler[h].kind = "none"
  /\ handler' = [handler EXCEPT ![h] = [NoHandler EXCEPT !.kind = kind, !.pc = "start",
                                                         !.req = req]]
  /\ UNCHANGED <<state_embeddings, state_index, embeddings_lock, index_lock, cvars, ivars>>

\* stats taking the index lock before the embeddings lock
StatsLock_IndexFirst(h) ==
  /\ handler[h].kind = "stats"
  /\ \/ /\ handler[h].pc = "start"
        /\ index_lock' = Enqueue(index_lock, h, "read")
        /\ handler' = [handler EXCEPT ![h].pc = "await_embeddings"]
        /\ UNCHANGED embeddings_lock
     \/ /\ handler[h].pc = "await_embeddings"
        /\ Holds(index_lock, h, "read")
        /\ embeddings_lock' = Enqueue(embeddings_lock, h, "read")
        /\ handler' = [handler EXCEPT ![h].pc = "await_index"]
        /\ UNCHANGED index_lock
  /\ UNCHANGED <<state_embeddings, state_index, cvars, ivars>>

\* stats: state.embeddings.read().await, then, holding that guard,
\* state.index.read().await
StatsLock(h) ==
  /\ handler[h].kind = "stats"
  /\ \/ /\ handler[h].pc = "start"
        /\ embeddings_lock' = Enqueue(embeddings_lock, h, "read")
        /\ handler' = [handler EXCEPT ![h].pc = "await_embeddings"]
        /\ UNCHANGED index_lock
     \/ /\ handler[h].pc = "await_embeddings"
        /\ Holds(embeddings_lock, h, "read")
        /\ index_lock' = Enqueue(index_lock, h, "read")
        /\ handler' = [handler EXCEPT ![h].pc = "await_index"]
        /\ UNCHANGED embeddings_lock
  /\ UNCHANGED <<state_embeddings, state_index, cvars, ivars>>

\* stats: the response is built under both guards, which drop on return
StatsRespond(h) ==
  /\ handler[h].kind = "stats"
  /\ handler[h].pc = "await_index"
  /\ Holds(embeddings_lock, h, "read")
  /\ Holds(index_lock, h, "read")
  /\ handler' = [handler EXCEPT
       ![h].pc = "done",
       ![h].resp = StatsResponse(Len(state_embeddings), Dimensions(state_embeddings),
                                 state_index.built)]
  /\ embeddings_lock' = Release(embeddings_lock, h)
  /\ index_lock' = Release(index_lock, h)
  /\ UNCHANGED <<state_embeddings, state_index, cvars, ivars>>

\* the dimension check of upload_embeddings
InconsistentDimensions(embeddings) ==
  \E i \in 1..Len(embeddings) : Len(embeddings[i].vector) # Len(embeddings[1].vector)

\* UploadValidate without the dimension check
UploadValidate_NoDimensionCheck(h) ==
  /\ handler[h].kind = "upload"
  /\ handler[h].pc = "start"
  /\ IF handler[h].req.embeddings = <<>>
       THEN /\ handler' = [handler EXCEPT ![h].pc = "done", ![h].resp = ErrResponse(400)]
            /\ UNCHANGED embeddings_lock
       ELSE /\ handler' = [handler EXCEPT ![h].pc = "await_embeddings"]
            /\ embeddings_lock' = Enqueue(embeddings_lock, h, "write")
  /\ UNCHANGED <<state_embeddings, state_index, index_lock, cvars, ivars>>

\* upload_embeddings: an empty list and a list of inconsistent dimensions are
\* rejected with 400; otherwise state.embeddings.write().await
UploadValidate(h) ==
  /\ handler[h].kind = "upload"
  /\ handler[h].pc = "start"
  /\ IF handler[h].req.embeddings = <<>> \/ InconsistentDimensions(handler[h].req.embeddings)
       THEN /\ handler' = [handler EXCEPT ![h].pc = "done", ![h].resp = ErrResponse(400)]
            /\ UNCHANGED embeddings_lock
       ELSE /\ handler' = [handler EXCEPT ![h].pc = "await_embeddings"]
            /\ embeddings_lock' = Enqueue(embeddings_lock, h, "write")
  /\ UNCHANGED <<state_embeddings, state_index, index_lock, cvars, ivars>>

\* UploadSetEmbeddings dropping the embeddings guard before it asks for the index
UploadSetEmbeddings_Unlock(h) ==
  /\ handler[h].kind = "upload"
  /\ handler[h].pc = "await_embeddings"
  /\ Holds(embeddings_lock, h, "write")
  /\ state_embeddings' = handler[h].req.embeddings
  /\ handler' = [handler EXCEPT
       ![h].pc = "await_index",
       ![h].wrote = TRUE,
       ![h].new_index = BuiltIndexes[handler[h].req.embeddings]]
  /\ embeddings_lock' = Release(embeddings_lock, h)
  /\ index_lock' = Enqueue(index_lock, h, "write")
  /\ UNCHANGED <<state_index, cvars, ivars>>

\* upload_embeddings under the embeddings write guard: the list is replaced,
\* the index is built from it, then state.index.write().await
UploadSetEmbeddings(h) ==
  /\ handler[h].kind = "upload"
  /\ handler[h].pc = "await_embeddings"
  /\ Holds(embeddings_lock, h, "write")
  /\ state_embeddings' = handler[h].req.embeddings
  /\ handler' = [handler EXCEPT
       ![h].pc = "await_index",
       ![h].wrote = TRUE,
       ![h].new_index = BuiltIndexes[handler[h].req.embeddings]]
  /\ index_lock' = Enqueue(index_lock, h, "write")
  /\ UNCHANGED <<state_index, embeddings_lock, cvars, ivars>>

\* upload_embeddings under both write guards: the index is installed, then
\* drop(embeddings)
UploadSetIndex(h) ==
  /\ handler[h].kind = "upload"
  /\ handler[h].pc = "await_index"
  /\ Holds(index_lock, h, "write")
  /\ state_index' = handler[h].new_index
  /\ embeddings_lock' = Release(embeddings_lock, h)
  /\ handler' = [handler EXCEPT ![h].pc = "drop_index"]
  /\ UNCHANGED <<state_embeddings, index_lock, cvars, ivars>>

\* upload_embeddings: drop(index), then the response
UploadDropIndex(h) ==
  /\ handler[h].kind = "upload"
  /\ handler[h].pc = "drop_index"
  /\ index_lock' = Release(index_lock, h)
  /\ handler' = [handler EXCEPT
       ![h].pc = "done",
       ![h].resp = StatsResponse(Len(handler[h].req.embeddings),
                                 SomeDimensions(Len(handler[h].req.embeddings[1].vector)),
                                 TRUE)]
  /\ UNCHANGED <<state_embeddings, state_index, embeddings_lock, cvars, ivars>>

\* search: state.index.read().await
SearchLock(h) ==
  /\ handler[h].kind = "search"
  /\ handler[h].pc = "start"
  /\ index_lock' = Enqueue(index_lock, h, "read")
  /\ handler' = [handler EXCEPT ![h].pc = "await_index"]
  /\ UNCHANGED <<state_embeddings, state_index, embeddings_lock, cvars, ivars>>

\* search under the index read guard: 404 without an index, else top_k
SearchRespond(h) ==
  /\ handler[h].kind = "search"
  /\ handler[h].pc = "await_index"
  /\ Holds(index_lock, h, "read")
  /\ handler' = [handler EXCEPT
       ![h].pc = "done",
       ![h].resp = IF ~state_index.built THEN ErrResponse(404)
                   ELSE SearchResponse(TopKResults[state_index, handler[h].req])]
  /\ index_lock' = Release(index_lock, h)
  /\ UNCHANGED <<state_embeddings, state_index, embeddings_lock, cvars, ivars>>

\* load_dataset_endpoint: 400 without "path", 500 when the dataset does not
\* load; otherwise the index is built and state.embeddings.write().await
LoadDataset(h) ==
  /\ handler[h].kind = "load"
  /\ handler[h].pc = "start"
  /\ IF handler[h].req.path = "absent"
       THEN /\ handler' = [handler EXCEPT ![h].pc = "done", ![h].resp = ErrResponse(400)]
            /\ UNCHANGED embeddings_lock
       ELSE IF ~LoadFile(handler[h].req).ok
         THEN /\ handler' = [handler EXCEPT ![h].pc = "done", ![h].resp = ErrResponse(500)]
              /\ UNCHANGED embeddings_lock
         ELSE /\ handler' = [handler EXCEPT
                   ![h].pc = "await_embeddings",
                   ![h].req.embeddings = LoadFile(handler[h].req).embeddings,
                   ![h].new_index = BuiltIndexes[LoadFile(handler[h].req).embeddings]]
              /\ embeddings_lock' = Enqueue(embeddings_lock, h, "write")
  /\ UNCHANGED <<state_embeddings, state_index, index_lock, cvars, ivars>>

\* load_dataset_endpoint under the embeddings write guard: the list is
\* replaced, then state.index.write().await
LoadSetEmbeddings(h) ==
  /\ handler[h].kind = "load"
  /\ handler[h].pc = "await_embeddings"
  /\ Holds(embeddings_lock, h, "write")
  /\ state_embeddings' = handler[h].req.embeddings
  /\ handler' = [handler EXCEPT ![h].pc = "await_index", ![h].wrote = TRUE]
  /\ index_lock' = Enqueue(index_lock, h, "write")
  /\ UNCHANGED <<state_index, embeddings_lock, cvars, ivars>>

\* load_dataset_endpoint under both write guards: the index is installed; on
\* return the index guard drops first
LoadSetIndex(h) ==
  /\ handler[h].kind = "load"
  /\ handler[h].pc = "await_index"
  /\ Holds(index_lock, h, "write")
  /\ state_index' = handler[h].new_index
  /\ index_lock' = Release(index_lock, h)
  /\ handler' = [handler EXCEPT ![h].pc = "drop_embeddings"]
  /\ UNCHANGED <<state_embeddings, embeddings_lock, cvars, ivars>>

\* load_dataset_endpoint returns: the embeddings guard drops
LoadReturn(h) ==
  /\ handler[h].kind = "load"
  /\ handler[h].pc = "drop_embeddings"
  /\ embeddings_lock' = Release(embeddings_lock, h)
  /\ handler' = [handler EXCEPT
       ![h].pc = "done",
       ![h].resp = StatsResponse(Len(handler[h].req.embeddings),
                                 Dimensions(handler[h].req.embeddings), TRUE)]
  /\ UNCHANGED <<state_embeddings, state_index, index_lock, cvars, ivars>>

\* a step of the handler h
HandlerStep(h) ==
  \/ StatsLock(h)
  \/ StatsRespond(h)
  \/ UploadValidate(h)
  \/ UploadSetEmbeddings(h)
  \/ UploadSetIndex(h)
  \/ UploadDropIndex(h)
  \/ SearchLock(h)
  \/ SearchRespond(h)
  \/ LoadDataset(h)
  \/ LoadSetEmbeddings(h)
  \/ LoadSetIndex(h)
  \/ LoadReturn(h)

\* a step of the server other than the arrival of a request
ServerStep ==
  \/ \E h \in Handlers : HandlerStep(h)
  \/ GrantEmbeddings
  \/ GrantIndex

InitServer == InitCompressIdle /\ InitIndexIdle /\ InitServerIdle

NextServer ==
  \/ \E h \in Handlers, kind \in {"stats", "upload", "search", "load"} :
       \E req \in Requests(kind) : HandlerStart(h, kind, req)
  \/ ServerStep

\* the server under any interleaving of its handlers
SpecServer == InitServer /\ [][NextServer]_vars

\* while a handler can take a step or a lock can be granted, the runtime
\* eventually runs one of them
ServerFairness == WF_vars(ServerStep)

\* the server with the runtime polling every runnable handler
SpecServerLive == InitServer /\ [][NextServer]_vars /\ ServerFairness

(***************************************************************************)
(* Claims about the indexes                                                *)
(***************************************************************************)
\* a query a claim calls valid for an index of dimension dim: matching
\* dimension, finite components, nonzero norm
ValidQuery(query, dim) == Len(query) = dim /\ AllFin(query) /\ norm2(query) > 0

\* two result lists hold the same (id, score) pairs in the same order
SameResults(r1, r2) ==
  /\ Len(r1) = Len(r2)
  /\ \A i \in 1..Len(r1) : r1[i].id = r2[i].id /\ ScoreSame(r1[i].score, r2[i].score)

Uncached(idx) == [idx EXCEPT !.normalized_cache = None]

\* C6: for every valid query and every k, QuantizedIndex::top_k returns the
\* same (id, score) sequence without the cache and after precompute_normalized
C6_CachedEqualsUncached ==
  qindex.built =>
    \A query \in Queries, k \in 0..MaxK :
      ValidQuery(query, qindex.dim) =>
        SameResults(QuantizedIndex_top_k(Uncached(qindex), query, k),
                    QuantizedIndex_top_k(QuantizedIndex_precompute_normalized(qindex),
                                         query, k))

\* C7: a dataset embedding of zero norm is given score -1 for every valid
\* query, by the SearchIndex and by the QuantizedIndex
C7_ZeroNormScoredMinusOne ==
  \A query \in Queries, i \in 1..Len(dataset) :
    ZeroNorm(dataset[i].vector) =>
      /\ (findex.built /\ ValidQuery(query, findex.dim))
           => ScoreEq(SearchIndex_scores(findex, query)[i].score, ScoreInt(-1))
      /\ (qindex.built /\ ValidQuery(query, qindex.dim))
           => ScoreEq(QuantizedIndex_scores(qindex, query)[i].score, ScoreInt(-1))

\* C8: top_k of either index returns the empty list when the query length
\* differs from the index dimension or the query has zero norm, for every k,
\* with and without the cache
C8_InvalidQueryEmpty ==
  /\ (/\ last_call.op = "SearchIndex::top_k"
      /\ (Len(last_call.query) # findex.dim \/ ZeroNorm(last_call.query)))
       => last_call.res = <<>>
  /\ (/\ last_call.op = "QuantizedIndex::top_k"
      /\ (Len(last_call.query) # qindex.dim \/ ZeroNorm(last_call.query)))
       => last_call.res = <<>>

\* a zero query of the right dimension was put to a cached index with rows
C8_Witness ==
  /\ last_call.op = "QuantizedIndex::top_k"
  /\ qindex.normalized_cache.some
  /\ Len(qindex.ids) >= 2
  /\ last_call.k >= 1
  /\ Len(last_call.query) = qindex.dim
  /\ qindex.dim = 2
  /\ ZeroNorm(last_call.query)
  /\ last_call.res = <<>>

\* every embedding of the dataset has the same dimension
UniformDim(ds) == \A i, j \in 1..Len(ds) : Len(ds[i].vector) = Len(ds[j].vector)

\* C9: for a SearchIndex over n embeddings of one dimension, a query of that
\* dimension whose norm is not zero gets exactly min(k, n) results
C9_TopKLength ==
  (/\ last_call.op = "SearchIndex::top_k"
   /\ UniformDim(dataset)
   /\ (dataset # <<>> => Len(last_call.query) = Len(dataset[1].vector))
   /\ ~ZeroNorm(last_call.query))
    => Len(last_call.res) = Min2(last_call.k, Len(dataset))

\* two of three rows were returned
C9_Witness ==
  /\ last_call.op = "SearchIndex::top_k"
  /\ UniformDim(dataset)
  /\ Len(dataset) = 3
  /\ ValidQuery(last_call.query, 2)
  /\ last_call.k = 2
  /\ Len(last_call.res) = 2

\* every row of the index the last call went to, scored and sorted
LastRanked ==
  IF last_call.op = "SearchIndex::top_k"
    THEN SortDesc(SearchIndex_scores(findex, last_call.query))
    ELSE SortDesc(QuantizedIndex_scores(qindex, last_call.query))

\* the list res is in non-increasing score order, no row left out (rest)
\* scores above its last element, and rows of equal score keep their stored
\* order
Ranked(res, ranked, rest) ==
  /\ \A i, j \in 1..Len(res) : i < j => ~ScoreLt(res[i].score, res[j].score)
  /\ \A j \in 1..Len(rest) :
       res # <<>> => ~ScoreLt(res[Len(res)].score, rest[j].score)
  /\ \A i, j \in 1..Len(ranked) :
       (i < j /\ ScoreEq(ranked[i].score, ranked[j].score)) => ranked[i].row < ranked[j].row

\* C10 as claimed: whatever the scores, the list top_k returned is ranked
C10_RankedByScore ==
  (last_call.op # "none" /\ last_call.res # <<>>)
    => Ranked(last_call.res, LastRanked, Drop(LastRanked, last_call.k))

\* C10: when no row's score is NaN, the list top_k returned is ranked
C10_RankedByScoreNoNaN ==
  (/\ last_call.op # "none"
   /\ last_call.res # <<>>
   /\ \A i \in 1..Len(LastRanked) : LastRanked[i].score.k # "nan")
    => Ranked(last_call.res, LastRanked, Drop(LastRanked, last_call.k))

\* two of three rows were returned, the first stored row is not the best, and
\* the row left out ties with the last one returned
C10_Witness ==
  /\ last_call.op = "SearchIndex::top_k"
  /\ Len(findex.ids) = 3
  /\ last_call.k = 2
  /\ Len(last_call.res) = 2
  /\ \A i \in 1..3 : LastRanked[i].score.k # "nan"
  /\ last_call.res[1].id # findex.ids[1]
  /\ ScoreLt(last_call.res[2].score, last_call.res[1].score)
  /\ ScoreEq(LastRanked[3].score, last_call.res[2].score)

\* C11: batch_top_k returns one result list per query, result i being
\* top_k(queries[i], k), in whatever order the pool ran the queries; while it
\* runs, every query already done has its result at its own position
C11_BatchInQueryOrder ==
  /\ batch.state = "returned"
       => /\ Len(batch.res) = Len(batch.queries)
          /\ \A i \in 1..Len(batch.queries) :
               batch.res[i] = BatchTopK(batch.op, batch.queries[i], batch.k)
  /\ batch.state = "running"
       => \A j \in 1..Len(batch.done) :
            batch.res[batch.done[j]] =
              BatchTopK(batch.op, batch.queries[batch.done[j]], batch.k)

\* a batch of two queries with different answers returned, the pool having
\* run the second query first
C11_Witness ==
  /\ batch.state = "returned"
  /\ batch.op = "QuantizedIndex::batch_top_k"
  /\ batch.done = <<2, 1>>
  /\ batch.k >= 1
  /\ batch.res[1] # <<>>
  /\ batch.res[2] # <<>>
  /\ batch.res[1] # batch.res[2]

\* the rows a self-query of the last call stands for: top_k(v.vector, 1)
SelfRows ==
  IF last_call.op = "SearchIndex::top_k" /\ last_call.k = 1
    THEN {i \in 1..Len(dataset) : dataset[i].vector = last_call.query}
    ELSE {}

\* u is a positive multiple of v: their cosine is 1
SameDirection(u, v) ==
  /\ Len(u) = Len(v)
  /\ dot(u, v) > 0
  /\ dot(u, v) * dot(u, v) = norm2(u) * norm2(v)

ProperDataset ==
  /\ UniformDim(dataset)
  /\ \A i \in 1..Len(dataset) :
       AllFin(dataset[i].vector) /\ norm2(dataset[i].vector) > 0

C13_PrecomputeIdempotent ==
  /\ [](precomputes >= 1 => qindex.normalized_cache.some)
  /\ [][(precomputes >= 1 /\ precomputes' = precomputes + 1)
          => \A query \in Queries, k \in 0..MaxK :
               QuantizedIndex_top_k(qindex', query, k) =
                 QuantizedIndex_top_k(qindex, query, k)]_vars

\* precompute_normalized was called twice on an index of three rows, which
\* then answered a query
C13_Witness ==
  /\ precomputes = 2
  /\ Len(qindex.ids) = 3
  /\ last_call.op = "QuantizedIndex::top_k"
  /\ last_call.k >= 2
  /\ Len(last_call.res) >= 2
  /\ last_call.res =
       QuantizedIndex_top_k(QuantizedIndex_precompute_normalized(Uncached(qindex)),
                            last_call.query, last_call.k)

(***************************************************************************)
(* Claims about the parser                                                 *)
(***************************************************************************)
\* the line is not blank and has the JSON or the CSV format of a record
MatchesFormat(line) ==
  \/ line.kind = "json"
  \/ line.kind = "csv" /\ Len(line.fields) >= 1

\* how many of the lines satisfy P
CountLines(lines, P(_)) == Cardinality({i \in 1..Len(lines) : P(lines[i])})

\* C14: the number compress_stream returns is the number of lines of the
\* input that have the JSON or the CSV format, which is the number of records
\* accepted: blank lines and lines of neither format are passed over, the
\* lines after them are read, and an empty input gives 0
C14_ReturnsAcceptedCount ==
  (pc = "done" /\ result.kind = "ok")
    => /\ input = <<>>
       /\ result.n = CountLines(read_lines, MatchesFormat)
       /\ result.n = Len(accepted)

\* three lines were read, a blank one and one of neither format before a
\* record, and 1 was returned
C14_Witness ==
  /\ pc = "done"
  /\ result = Ok(1)
  /\ Len(read_lines) = 3
  /\ read_lines[1].kind = "blank"
  /\ read_lines[2] = Line("csv", IdB, <<>>)
  /\ MatchesFormat(read_lines[3])

\* an id and at least one numeric component parse from the line
HasIdAndNumber(line) == line.kind # "blank" /\ NumericFields(line.fields) # <<>>

\* C15: only lines from which an id and at least one numeric component parse
\* are counted and accepted as records
C15_AcceptedHaveNumber ==
  /\ parsed = CountLines(read_lines, HasIdAndNumber)
  /\ \A i \in 1..Len(accepted) : accepted[i].vector # <<>>
  /\ (~quantize_arg /\ FileFrames.ok)
       => \A i \in 1..Len(FileFrames.frames) :
            \E j \in 1..Len(accepted) :
              /\ accepted[j].vector # <<>>
              /\ FileFrames.frames[i] = SerializeEmbedding(accepted[j])

(***************************************************************************)
(* Claims about quantization                                               *)
(***************************************************************************)
\* the vectors of the dataset
DatasetVectors == [i \in 1..Len(dataset) |-> dataset[i].vector]

\* the values of the vectors in dimension d
ValuesSeen(d) == {dataset[i].vector[d] : i \in 1..Len(dataset)}

\* one byte vector per input vector, of its length, at its place
QVecsMatch ==
  /\ Len(qindex.qvecs) = Len(dataset)
  /\ \A i \in 1..Len(dataset) :
       /\ Len(qindex.qvecs[i]) = Len(dataset[i].vector)
       /\ \A d \in 1..Len(dataset[i].vector) :
            qindex.qvecs[i][d] = quantize(qindex.tables[d], dataset[i].vector[d])

\* m is the least (sign 1) or the greatest (sign -1) element of vals
Extremum(m, vals, sign) ==
  /\ m \in vals
  /\ \A v \in vals : IF sign = 1 THEN FLe(m, v) ELSE FLe(v, m)

\* C16 as claimed: quantize_dataset returns, for equal-length vectors, one
\* table per dimension with the least and the greatest value seen, and one
\* byte vector per vector; two empty lists for no vector
C16_TablesAreExtrema ==
  (qindex.built /\ UniformDim(dataset))
    => IF dataset = <<>> THEN qindex.tables = <<>> /\ qindex.qvecs = <<>>
       ELSE /\ Len(qindex.tables) = Len(dataset[1].vector)
            /\ \A d \in 1..Len(qindex.tables) :
                 /\ Extremum(qindex.tables[d].min, ValuesSeen(d), 1)
                 /\ Extremum(qindex.tables[d].max, ValuesSeen(d), -1)
            /\ QVecsMatch

\* C16: the same with the extrema taken over the values that are not NaN; a
\* dimension in which every value is NaN gets min = +inf and max = -inf
C16_TablesAreExtremaOfNumbers ==
  (qindex.built /\ UniformDim(dataset))
    => IF dataset = <<>> THEN qindex.tables = <<>> /\ qindex.qvecs = <<>>
       ELSE /\ Len(qindex.tables) = Len(dataset[1].vector)
            /\ \A d \in 1..Len(qindex.tables) :
                 LET nums == ValuesSeen(d) \ {NaN}
                 IN IF nums = {}
                      THEN qindex.tables[d] = QuantTable(PInf, NInf)
                      ELSE /\ Extremum(qindex.tables[d].min, nums, 1)
                           /\ Extremum(qindex.tables[d].max, nums, -1)
            /\ QVecsMatch

\* three vectors were quantized, the least value of the first dimension being
\* in the last vector and the greatest in the second
C16_Witness ==
  /\ qindex.built
  /\ UniformDim(dataset)
  /\ Len(dataset) = 3
  /\ qindex.tables[1] = QuantTable(F(-1), F(2))
  /\ dataset[3].vector[1] = F(-1)
  /\ dataset[2].vector[1] = F(2)
  /\ qindex.qvecs[1][1] > 0 /\ qindex.qvecs[1][1] < QLevels

\* |r - v| <= (max - min) / 255 as f32 compares it, r being in units of
\* 1/255: false when a side is NaN (r NaN, or inf - inf)
WithinStep(r, v, t) ==
  IF r.k = "nan" \/ v.k = "nan" THEN FALSE
  ELSE IF r.k = "inf" /\ v.k = "inf" THEN r.v # v.v /\ ~(IsFin(t.min) /\ IsFin(t.max))
  ELSE IF r.k = "inf" \/ v.k = "inf" THEN ~(IsFin(t.min) /\ IsFin(t.max))
  ELSE IF ~(IsFin(t.min) /\ IsFin(t.max)) THEN TRUE
  ELSE Abs(r.v - QLevels * v.v) <= t.max.v - t.min.v

\* the last QuantTable call obeys the claim's bounds when Proper(t) holds of a
\* table t with min < max, and the degenerate rule when max <= min
QuantizeBound(Proper(_)) ==
  LET t == quant_call.t
      v == quant_call.v
      inside == FLt(t.min, t.max) /\ Proper(t) /\ FLe(t.min, v) /\ FLe(v, t.max)
  IN /\ (quant_call.op \in {"quantize", "dequantize"} /\ inside)
          => /\ quant_call.q \in 0..QLevels
             /\ \A w \in F32Known :
                  (FLe(t.min, w) /\ FLe(w, v)) => quantize(t, w) <= quant_call.q
     /\ (quant_call.op = "dequantize" /\ inside) => WithinStep(quant_call.r, v, t)
     /\ (quant_call.op = "quantize" /\ FLe(t.max, t.min)) => quant_call.q = 0
     /\ (quant_call.op \in {"dequantize", "dequantize_byte"} /\ FLe(t.max, t.min))
          => quant_call.r = Times255(t.min)

AnyTable(t) == TRUE

FiniteTable(t) == IsFin(t.min) /\ IsFin(t.max)

\* C17 as claimed: for every table with min < max and v in [min, max],
\* quantize(v) is a byte, quantize is non-decreasing and
\* |dequantize(quantize(v)) - v| <= (max - min)/255; when max <= min quantize
\* returns 0 and dequantize returns min
C17_QuantizeBound == QuantizeBound(AnyTable)

\* C17: the same for the tables whose min and max are finite
C17_QuantizeBoundFinite == QuantizeBound(FiniteTable)

\* a value strictly inside a finite table came back from the round trip off
\* by less than a step, and not exactly
C17_Witness ==
  /\ quant_call.op = "dequantize"
  /\ FiniteTable(quant_call.t)
  /\ FLt(quant_call.t.min, quant_call.v)
  /\ FLt(quant_call.v, quant_call.t.max)
  /\ quant_call.q > 0 /\ quant_call.q < QLevels
  /\ quant_call.r # Times255(quant_call.v)
  /\ WithinStep(quant_call.r, quant_call.v, quant_call.t)

\* C18: an index built from an empty dataset, cached or not, is built without
\* a panic and answers every query, the zero-length one included, and every
\* k with the empty list
C18_EmptyDatasetEmptyResults ==
  dataset = <<>> =>
    /\ ~qindex.panicked
    /\ findex.built => (findex.dim = 0 /\ findex.ids = <<>>)
    /\ qindex.built => (qindex.dim = 0 /\ qindex.ids = <<>>)
    /\ last_call.op \in {"SearchIndex::top_k", "QuantizedIndex::top_k"}
         => last_call.res = <<>>

\* the zero-length query was put to a cached QuantizedIndex over no row
C18_Witness ==
  /\ dataset = <<>>
  /\ findex.built
  /\ qindex.built
  /\ qindex.normalized_cache.some
  /\ last_call.op = "QuantizedIndex::top_k"
  /\ last_call.query = <<>>
  /\ last_call.k >= 1
  /\ last_call.res = <<>>

(***************************************************************************)
(* Claims about the compressor's threads and frames                        *)
(***************************************************************************)
\* C19: once the writer thread has ended on an I/O error, compress_stream
\* still terminates, in both paths
C19_TerminatesAfterWriterFailure == (writer_pc = "failed") ~> Terminated

\* in the quantized path, where the writer owns the only receiver of the
\* bytes channel, compress_stream terminates after the writer's failure
QuantizedTerminatesAfterWriterFailure ==
  (quantize_arg /\ writer_pc = "failed") ~> Terminated

RECURSIVE SplitFrames(_)
\* the complete frames at the front of bytes, and the bytes after them
SplitFrames(bytes) ==
  IF Len(bytes) < 4 THEN [frames |-> <<>>, rest |-> bytes]
  ELSE LET n == LEValue(SubSeq(bytes, 1, 4), Len(bytes) + 1)
       IN IF 4 + n > Len(bytes) THEN [frames |-> <<>>, rest |-> bytes]
          ELSE LET more == SplitFrames(Drop(bytes, 4 + n))
               IN [frames |-> <<SubSeq(bytes, 5, 4 + n)>> \o more.frames,
                   rest |-> more.rest]

\* C20: after the header the output file is a run of frames, a 4-byte
\* little-endian length followed by that many bytes which are the payload of
\* one accepted record; after them comes nothing, or the length of the buffer
\* whose payload the writer is about to write (or failed to write)
C20_FramesContiguous ==
  LET split == SplitFrames(Drop(file, HeaderLen))
  IN /\ \A i \in 1..Len(split.frames) :
          \E j \in 1..Len(accepted) : split.frames[i] = ExpectedPayload(j)
     /\ \/ split.rest = <<>>
        \/ /\ split.rest = U32LE(Len(writer_cur))
           /\ writer_cur # <<>>
           /\ writer_pc \in {"payload", "failed"}
     /\ (Terminated /\ ~io_failed) => split.rest = <<>>

\* three records were written by two workers, not in the order of the input
C20_Witness ==
  /\ pc = "done"
  /\ ~io_failed
  /\ Len(accepted) = 3
  /\ FileFrames.ok
  /\ Len(FileFrames.frames) = 3
  /\ FileFrames.frames[1] # ExpectedPayload(1)
  /\ FileFrames.frames[1] # FileFrames.frames[2]

\* a thread of the quantized path was spawned
QuantThreadSpawned ==
  writer_pc # "unspawned" \/ \E w \in Workers : worker_pc[w] # "unspawned"

\* the writer has taken a buffer from the bytes channel or written past the header
WriterReceived == writer_cur # <<>> \/ Len(file) > HeaderLen

\* C21: the container header precedes every frame: without quantize the
\* writer has the STREAM magic in the file before its first recv, so a writer
\* past its header step, a received buffer and a nonempty file all imply
\* that the file starts with the magic; with quantize the QSTREAM magic,
\* table_count, dim, tables_len and the tables blob are in the file before
\* the appending writer or any worker is spawned
C21_HeaderFirst ==
  /\ ~quantize_arg =>
       /\ (writer_pc \in {"recv", "len", "payload", "flush", "exited"} \/ file # <<>>
             \/ writer_cur # <<>>)
            => Take(file, Len(header)) = header
       /\ writer_pc \in {"unspawned", "header"} => file = <<>> /\ writer_cur = <<>>
  /\ quantize_arg =>
       /\ (QuantThreadSpawned \/ file # <<>> \/ pc = "spawn")
            => Take(file, HeaderLen) = QHeaderBytes(tables)
       /\ pc \in {"open", "read", "qheader"} => ~QuantThreadSpawned /\ file = <<>>
       /\ Take(QHeaderBytes(tables), Len(qheader)) = qheader

\* a quantized run wrote its header and then two frames
C21_Witness ==
  /\ quantize_arg
  /\ pc = "done"
  /\ result.kind = "ok"
  /\ ~io_failed
  /\ Len(tables) = 2
  /\ Len(file) > HeaderLen
  /\ Len(FileFrames.frames) = 2

\* C22: with quantize no worker is spawned, no item is fed and no frame
\* reaches the writer until the parse loop has consumed the input and the
\* tables are those quantize_dataset computes from all collected vectors;
\* every buffer a worker produces, and every frame in the file, is the
\* (id, bytes) pair with the byte vector quantize_dataset gives that record
C22_TablesBeforeWorkers ==
  quantize_arg =>
    /\ (QuantThreadSpawned \/ fed > 0 \/ item_ch # <<>> \/ bytes_ch # <<>> \/ WriterReceived)
         => /\ input = <<>>
            /\ collected_embeddings = accepted
            /\ ~QuantizePanics([i \in 1..Len(accepted) |-> accepted[i].vector])
            /\ tables = quantize_dataset([i \in 1..Len(accepted) |-> accepted[i].vector]).tables
    /\ \A w \in Workers : worker_buf[w] # <<>> =>
         \E j \in 1..Len(accepted) : worker_buf[w] = ExpectedPayload(j)
    /\ \A i \in 1..Len(bytes_ch) : \E j \in 1..Len(accepted) : bytes_ch[i] = ExpectedPayload(j)
    /\ \A i \in 1..Len(SplitFrames(Drop(file, HeaderLen)).frames) :
         \E j \in 1..Len(accepted) :
           SplitFrames(Drop(file, HeaderLen)).frames[i] = ExpectedPayload(j)

\* a worker holds the quantized bytes of a record whose values differ from
\* the table minimum while another record is still queued
C22_Witness ==
  /\ quantize_arg
  /\ pc = "feed"
  /\ Len(accepted) >= 2
  /\ \E w \in Workers :
       /\ worker_pc[w] = "send"
       /\ \E j \in 1..Len(accepted) :
            /\ worker_buf[w] = ExpectedPayload(j)
            /\ \E i \in 1..Len(AcceptedQVecs[j]) : AcceptedQVecs[j][i] = 255

\* C24: no index-out-of-range panic is reachable in compress_stream with
\* quantize: neither quantize_dataset in the calling thread nor tables[i] in a
\* quantizing worker panics, whatever the lengths of the accepted vectors
C24_NoOutOfRange ==
  /\ pc # "panicked"
  /\ result # Panic
  /\ \A w \in Workers : worker_pc[w] # "panicked"

\* C25: a failure while reading the input is surfaced: a call of
\* compress_stream during which a read failed does not return Ok
C25_ReadErrorSurfaces ==
  (Terminated /\ read_failed) => result.kind # "ok"

\* C26: a step of precompute_normalized leaves ids, tables, qvecs and dim of
\* a built QuantizedIndex as they were; a step that runs or returns a top_k or
\* batch_top_k call, or drops its result, changes no field of either index;
\* only precompute_normalized changes the index at all; and a cache that is
\* present is present after every step
C26_OnlyCacheChanges ==
  [][qindex.built =>
       /\ qindex'.built
       /\ qindex'.ids = qindex.ids
       /\ qindex'.tables = qindex.tables
       /\ qindex'.qvecs = qindex.qvecs
       /\ qindex'.dim = qindex.dim
       /\ qindex' # qindex => precomputes' = precomputes + 1
       /\ (last_call' # last_call \/ batch' # batch) => qindex' = qindex /\ findex' = findex
       /\ qindex.normalized_cache.some => qindex'.normalized_cache.some]_vars

\* after precompute_normalized has run twice on an index of three rows, top_k
\* returned rows scored from the cache
C26_Witness ==
  /\ qindex.built
  /\ Len(qindex.qvecs) = 3
  /\ precomputes = 2
  /\ qindex.normalized_cache.some
  /\ Len(qindex.normalized_cache.rows) = 3
  /\ last_call.op = "QuantizedIndex::top_k"
  /\ Len(last_call.res) = 2

\* C27: the item channel and the bytes channel never hold more than their
\* capacity; a send completes only on a channel that is not full and puts its
\* item at the back of the channel (a worker's buffer is discarded only when
\* the bytes channel has no receiver left); and an item leaves a channel only
\* by a recv of a worker or of the writer
C27_BoundedChannels ==
  /\ [](Len(item_ch) <= ChanCap /\ Len(bytes_ch) <= ChanCap)
  /\ [][/\ \A w \in Workers :
             (worker_pc[w] = "send" /\ worker_pc'[w] # "send") =>
               \/ Len(bytes_ch) < ChanCap /\ bytes_ch' = Append(bytes_ch, worker_buf[w])
               \/ ~BytesRxAlive /\ bytes_ch' = bytes_ch
        /\ (~quantize_arg /\ accepted' # accepted) =>
             Len(item_ch) < ChanCap /\ item_ch' = Append(item_ch, accepted'[Len(accepted')])
        /\ fed' # fed =>
             Len(item_ch) < ChanCap /\ item_ch' = Append(item_ch, collected_embeddings[fed'])
        /\ Len(item_ch') < Len(item_ch) =>
             \E w \in Workers : /\ worker_pc[w] = "recv"
                                /\ worker_pc'[w] = "send"
                                /\ worker_buf'[w] = WorkerBytes(Head(item_ch))
                                /\ item_ch' = Tail(item_ch)
        /\ Len(bytes_ch') < Len(bytes_ch) =>
             /\ writer_pc = "recv"
             /\ writer_cur' = Head(bytes_ch)
             /\ bytes_ch' = Tail(bytes_ch)]_vars

\* both channels are full and a worker holds a buffer it cannot send until
\* the writer takes one from the bytes channel
C27_Witness ==
  /\ ~quantize_arg
  /\ Len(item_ch) = ChanCap
  /\ Len(bytes_ch) = ChanCap
  /\ writer_pc = "recv"
  /\ \E w \in Workers : worker_pc[w] = "send" /\ ~ENABLED WorkerSend(w)

\* compress_stream returned the error of File::open(input): every other
\* error it returns comes from a failed operation on the output file
OpenInputFailed == pc = "done" /\ result = Err /\ ~io_failed

\* C30: when the input cannot be opened compress_stream returns an error, and
\* then the output file has been neither created nor truncated, nothing was
\* written or read, and neither the writer nor a worker was spawned
C30_OpenErrorNoEffect ==
  OpenInputFailed =>
    /\ ~created
    /\ file = <<>>
    /\ read_lines = <<>>
    /\ writer_pc = "unspawned"
    /\ \A w \in Workers : worker_pc[w] = "unspawned"
    /\ item_ch = <<>> /\ bytes_ch = <<>>

\* the call returned the error of File::open(input) for an input that holds a record
C30_Witness ==
  /\ OpenInputFailed
  /\ ~created
  /\ writer_pc = "unspawned"
  /\ Len(input) = MaxLines
  /\ ParseLine(Head(input)).ok

(***************************************************************************)
(* Claims about the server                                                 *)
(***************************************************************************)
\* the stored index is the one built from the stored embedding list (or
\* nothing was ever stored)
IndexMatchesEmbeddings ==
  \/ ~state_index.built /\ state_embeddings = <<>>
  \/ state_index = SearchIndex_from_dataset(state_embeddings)

\* a handler is between taking the embeddings write guard and dropping it
WriterInside == \E h \in Handlers : Holds(embeddings_lock, h, "write")

\* C23: upload and load replace the list and install the index under
\* exclusive access: the list changes only under the embeddings write guard,
\* the index only under both write guards, a write guard is held by one
\* handler and shared with no reader, and whenever no writer is inside (so
\* whenever stats holds its read guard on the list, and when every upload has
\* returned) the stored index is the one built from the stored list
C23_ExclusiveUpdate ==
  /\ [](~WriterInside => IndexMatchesEmbeddings)
  /\ [](\A h \in Handlers :
          Holds(embeddings_lock, h, "read") => ~WriterInside /\ IndexMatchesEmbeddings)
  /\ [](\A h, g \in Handlers :
          /\ (Holds(embeddings_lock, h, "write") /\ g # h) => Holds(embeddings_lock, g, "none")
          /\ (Holds(index_lock, h, "write") /\ g # h) => Holds(index_lock, g, "none"))
  /\ [][/\ state_embeddings' # state_embeddings =>
             \E h \in Handlers : /\ Holds(embeddings_lock, h, "write")
                                 /\ state_embeddings' = handler[h].req.embeddings
        /\ state_index' # state_index =>
             \E h \in Handlers : /\ Holds(index_lock, h, "write")
                                 /\ Holds(embeddings_lock, h, "write")
                                 /\ state_index' = SearchIndex_from_dataset(state_embeddings)]_vars

\* two uploads of different lists overlap while stats waits: the first has
\* installed its index and still holds the index guard, the second has
\* replaced the list and waits for the index, stats waits for the list
C23_Witness ==
  \E h1, h2, h3 \in Handlers :
    /\ handler[h1].kind = "upload" /\ handler[h1].pc = "drop_index"
    /\ handler[h2].kind = "upload" /\ handler[h2].pc = "await_index"
    /\ handler[h1].req # handler[h2].req
    /\ Holds(embeddings_lock, h2, "write")
    /\ state_embeddings = handler[h2].req.embeddings
    /\ state_index = handler[h1].new_index
    /\ ~IndexMatchesEmbeddings
    /\ handler[h3].kind = "stats" /\ handler[h3].pc = "await_embeddings"
    /\ Holds(embeddings_lock, h3, "none")

\* the request of handler h is one the server rejects
Rejected(h) ==
  \/ /\ handler[h].kind = "upload"
     /\ \/ handler[h].req.embeddings = <<>>
        \/ InconsistentDimensions(handler[h].req.embeddings)
  \/ /\ handler[h].kind = "load"
     /\ handler[h].req.path = "absent" \/ ~LoadFile(handler[h].req).ok

\* C28: an upload of an empty list or of inconsistent dimensions and a load
\* without path or of a file that does not load end with an error response
\* and never assign to the list or the index; the step that produces an
\* error response leaves the list and the index as they were; a search ends
\* with an error exactly when it finds no index installed, and no index is
\* installed exactly as long as no upload or load has written
C28_RejectedLeavesState ==
  /\ [](\A h \in Handlers :
          /\ Rejected(h) => ~handler[h].wrote /\ handler[h].pc \in {"start", "done"}
          /\ (Rejected(h) /\ handler[h].pc = "done") => handler[h].resp.status = "err"
          /\ handler[h].resp.status = "err" => ~handler[h].wrote)
  /\ [](~state_index.built =>
          /\ state_embeddings = <<>> \/ WriterInside
          /\ \A h \in Handlers : handler[h].wrote => handler[h].pc = "await_index")
  /\ [][\A h \in Handlers :
          /\ (handler'[h].resp.status = "err" /\ handler[h].resp.status # "err") =>
               state_embeddings' = state_embeddings /\ state_index' = state_index
          /\ (handler[h].kind = "search" /\ handler[h].pc # "done" /\ handler'[h].pc = "done") =>
               (handler'[h].resp.status = "err" <=> ~state_index.built)]_vars

\* a search found no index and answered 404, then a list was uploaded, then
\* an upload of inconsistent dimensions was rejected: the list and the index
\* are those of the good upload
C28_Witness ==
  \E h1, h2, h3 \in Handlers :
    /\ handler[h1].kind = "search" /\ handler[h1].resp = ErrResponse(404)
    /\ handler[h2].kind = "upload" /\ handler[h2].resp.status = "ok"
    /\ handler[h3].kind = "upload" /\ handler[h3].req.embeddings # <<>>
    /\ handler[h3].resp = ErrResponse(400)
    /\ state_embeddings = handler[h2].req.embeddings
    /\ state_index = SearchIndex_from_dataset(handler[h2].req.embeddings)

\* handler h waits for or holds a guard of the lock
Engaged(lock, h) ==
  \/ ~Holds(lock, h, "none")
  \/ \E i \in 1..Len(lock.queue) : lock.queue[i].h = h

\* every handler that was started has completed
AllHandlersDone == \A h \in Handlers : handler[h].kind # "none" => handler[h].pc = "done"

\* C29: whatever handlers run concurrently, from some moment on every handler
\* that was started has completed (no handler waits for a lock forever); and
\* a handler asks for the embeddings lock only while it neither holds nor
\* waits for the index lock
C29_HandlersComplete ==
  /\ <>[]AllHandlersDone
  /\ [][\A h \in Handlers :
          (~Engaged(embeddings_lock, h) /\ Engaged(embeddings_lock, h)') =>
            ~Engaged(index_lock, h)]_vars

\* a stats, an upload and a load ran at once and all completed, each having
\* waited for a lock
C29_Witness ==
  \E h1, h2, h3 \in Handlers :
    /\ handler[h1].kind = "stats" /\ handler[h1].pc = "done"
    /\ handler[h2].kind = "upload" /\ handler[h2].resp.status = "ok"
    /\ handler[h3].kind = "load" /\ handler[h3].resp.status = "ok"
    /\ handler[h1].resp.count = Len(handler[h2].req.embeddings)
    /\ state_embeddings = handler[h3].req.embeddings
    /\ embeddings_lock = FreeLock /\ index_lock = FreeLock

====
